---- MODULE Spec2Model ----
(***************************************************************************)
(* Verification model of SNAP's concurrent batched input path:             *)
(*   - ReadSupplierQueue (SNAPLib/ReadSupplierQueue.cpp): reader threads   *)
(*     fill queue elements, consumers take them through                    *)
(*     ReadSupplierFromQueue / PairedReadSupplierFromQueue;                *)
(*   - BatchTracker and MemMapDataReader (SNAPLib/DataReader.cpp).         *)
(* Every critical section of the queue's ExclusiveLock is one action; the  *)
(* reads the code makes without the lock are actions of their own.         *)
(***************************************************************************)
EXTENDS Integers, Sequences, FiniteSets, TLC

(***************************************************************************)
(* Bounds of the model.                                                    *)
(***************************************************************************)
\* records in the longest input file
MaxReads == 5
\* half of ReadQueueElement::nReads (nReads is even: paired readers fill two at a time)
HalfNReads == 1
\* records of a file that share one DataBatch
ReadsPerBatch == 3
\* consumer threads, each with its own read supplier
NumSuppliers == 2
\* MemMapDataReader: bytes per batch (i_batchSize)
batchSize == 2
\* MemMapDataReader: bytes a batch may run over its start region (i_overflowBytes)
overflowBytes == 1
\* MemMapDataReader: size of the mapped file
fileSize == 10
\* threads that call MemMapDataReader::releaseBefore
NumReleasers == 2
\* WindowsOverlappedDataReader::bufferSize, scaled down
bufferSize == 4
\* the largest batch ID the overlapped reader hands out in the model
MaxBatchID == 9
\* worker threads, each with its own AsyncDataWriter
NumWriters == 2
\* the largest buffer count (i_count) of an AsyncDataWriter
MaxCount == 3
\* AsyncDataWriter: bytes per buffer (i_bufferSize)
writerBufferSize == 2
\* batches the writers of one supplier hand off between them
MaxHandoffs == 3
\* paired alignment: the highest genome location of a seed hit
MaxLocation == 3
\* paired alignment: the highest offset of a seed in its read
MaxSeedOffset == 1
\* paired alignment: the most hits one seed lookup returns
MaxHitsPerLookup == 2
\* IntersectingPairedEndAligner: maxK, minSpacing and maxSpacing of the constructor
maxK == 1
minSpacing == 1
maxSpacing == 2
\* IntersectingPairedEndAligner::maxMergeDistance (31 in the constructor), scaled down
maxMergeDistance == 1
\* scoreLocation: the largest edit distance and the largest shift of a location
MaxEditDistance == 1
MaxLocationOffset == 1
\* duplicate marking: bases of a read, and reads of a run of unpaired reads
ReadLength == 2
MaxRunLength == 3
\* duplicate marking: the buffers of the AsyncDataWriter the filter reads back in
WriterBufferCount == 3
\* ComposeFilter: the largest size of a batch or an advance
MaxBytes == 1
\* ComposeFilter: the calls made to the composed filter
MaxFilterCalls == 1
\* virtual offsets: the highest logical offset, and the blocks of a file
MaxLogical == 6
MaxBlocks == 2
\* BAM records: the bases of a packed sequence, the characters of a quality string
MaxBases == 3
MaxQualLength == 2
\* the highest character of a quality string, '~'
MaxQualityChar == 126
\* HashTableHitSet on its own: the calls made to one set
MaxHitSetCalls == 3
\* seed lookups: the index's seed length, the longest read, maxSeeds and
\* maxBigHits of the constructor, and the most hits a lookup returns
seedLen == 2
MaxReadLen == 3
maxSeeds == 2
maxBigHits == 2
MaxSeedHits == 3
\* SAM files: the most lines of the body, the longest line and header in bytes,
\* the most ranges a file is divided into, and getpagesize()
MaxLines == 4
MaxLineLength == 3
MaxHeaderSize == 2
MaxRanges == 3
PageSize == 2
\* SAM records: the highest genome location of an alignment, the longest read
\* and the most bases clipped from an end of a read
MaxGenomeLocation == 12
MaxDataLength == 2
MaxClipped == 1
MaxMateLocation == 3
\* mapping quality: the digits of the largest probability in units of the
\* smallest, the highest score, the most popular seeds skipped and the biggest
\* cluster
MaxProbabilityDigits == 7
MaxScore == 5
MaxSeedsSkipped == 12
MaxCluster == 4
\* single-end alignment: the reads of a supplier, the edit distance limit and
\* the highest selectivity
MaxSuppliedReads == 3
maxDist == 1
MaxSelectivity == 2
\* SingleAligner.cpp line 140
MinReadLength == 50
\* GzipDataReader: the bytes of an extra slot that are the gzip reader's, and
\* the most bytes a compressed batch inflates to
extraBytes == 3
MaxInflated == 4
\* filter suppliers: the suppliers composed into one, and the batches the
\* writers of a supplier write
MaxChain == 3
MaxBatchesWritten == 3

(***************************************************************************)
(* Program constants.                                                      *)
(***************************************************************************)
\* ReadSupplierQueue::MaxImbalance (declared in ReadSupplierQueue.h)
MaxImbalance == 2
\* UINT32_MAX, the start value of the minimum search in BatchTracker::removeRead;
\* it is only compared with batch IDs, so the largest TLC integer stands for it
UINT32_MAX == 2147483647
\* the batch count MemMapDataSupplier gives a multi-batch MemMapDataReader
batchCount == 3
\* WindowsOverlappedDataReader::nBuffers
nBuffers == 3
\* 0xffffffff, the largest unsigned, with the unsigned scaled down to 8 bits
InvalidGenomeLocation == 255
\* IntersectingPairedEndAligner.h
NUM_SET_PAIRS == 2
NUM_READS_PER_PAIR == 2
\* IntersectingPairedEndAligner: set by the constructor
extraScoreLimit == 5
distanceToSearchBeyondBestScore == 2
\* bestPairScore before any pair was found
NoPairScore == 65536
\* match probabilities are counted in halves, pair probabilities in quarters:
\* probabilityOfAllPairs >= 4.9 is 20 quarters or more
GiveUpProbability == 20
MatchProbabilities == {1, 2}
EditDistances == 0..MaxEditDistance
\* base qualities of a BAM record; 255 says the quality is missing
QualityValues == {0, 1, 255}
\* _uint64 scaled down to 8 bits: UINT64_MAX, and the widths of the two parts of
\* a virtual offset (16 and 48 bits of 64)
WordBits == 8
UINT64_MAX == 255
DeltaBits == 2
PhysicalBits == 6
\* the character code of '!'
ExclamationMark == 33
LocationOffsets == (0 - MaxLocationOffset)..MaxLocationOffset

nReads == 2 * HalfNReads

Readers == {0, 1}
Suppliers == 1..NumSuppliers
Modes == {"single", "paired", "split"}

BatchOf(i) == 1 + ((i - 1) \div ReadsPerBatch)
MaxBatch == BatchOf(MaxReads)
Batches == 0..MaxBatch

\* the i-th record of file f, tagged with the batch the data reader was in
Record(f, i) == [file |-> f, id |-> i, batch |-> BatchOf(i)]
\* a default-constructed Read (Read firstReadInNextBatch[2])
DefaultRead(f) == [file |-> f, id |-> 0, batch |-> 0]

VARIABLES
    mode,                   \* which constructor built the queue
    fileLen,                \* records in each input file
    \* ---- ReadSupplierQueue members (guarded by lock)
    emptyQueue,             \* number of elements on emptyQueue
    readyQueue,             \* readyQueue[0..1]: sequences of elements
    balance,
    nReadersRunning,
    nSuppliersRunning,
    allReadsQueued,
    pending,                \* BatchTracker::pending, batch -> count (0 = no entry)
    \* ---- event objects
    readsReady,
    emptyBuffersAvailable,
    allReadsConsumed,
    throttle,
    \* ---- ReaderThread locals
    rpc,                    \* position of each reader thread
    nextRecord,             \* next record the underlying reader returns
    element,                \* the element being filled
    done,
    pendingReadInNextBatch,
    firstReadInNextBatch,
    \* ---- suppliers (one per consumer thread)
    cpc,                    \* position of each consumer thread
    currentElement,
    currentSecondElement,
    nextReadIndex,
    lastReturned,           \* what the last getNextRead / getNextReadPair returned
    finishedWaiting,        \* waitUntilFinished has returned
    \* ---- history
    added,                  \* addRead calls per batch
    removed,                \* removeRead calls per batch
    releasedBefore,         \* batch IDs passed to releaseBefore by doneWithElement
    \* ---- MemMapDataReader members
    currentMapOffset,
    currentMapStartSize,
    currentMapSize,
    offset,
    currentBatch,
    startBytes,
    validBytes,
    earliestUnreleasedBatch,
    waiter,                 \* the SingleWaiterObject is signalled
    lockRecursive,          \* the build's ExclusiveLock may be taken again by its holder
    \* ---- the threads using the MemMapDataReader
    ppc,                    \* position of the producer (the thread reading the file)
    lastGetData,            \* what the producer's last getData returned
    releaser,               \* each releasing thread: position and the batch it passed
    \* ---- WindowsOverlappedDataReader members
    bufferInfo,
    readOffset,
    endingOffset,
    nextBatchID,
    nextBufferForReader,
    nextBufferForConsumer,
    opc,                    \* "constructed" until the first reinit, then "ready"
    \* ---- AsyncDataWriterSupplier and its AsyncDataWriters
    count,                  \* bufferCount
    filterType,             \* the type of the supplier's filter, "None" for no filter
    sharedOffset,
    sharedLogical,
    batches,                \* batches[w][i]: the Batch structs of writer w
    current,
    written,                \* nextBatch's local variable
    filterN,                \* what filter->onNextBatch returned
    wpc,                    \* position of each worker thread in its writer
    touched,                \* a write was outstanding on a buffer the worker or the
                            \* filter wrote into
    handed,                 \* the batches passed to beginWrite so far
    \* ---- IntersectingPairedEndAligner::align
    dataLength,             \* the shorter read's getDataLength()
    editDistances,          \* what LandauVishkin can compute for the two reads: edit
    matchProbabilities,     \* distances, match probabilities and shifts of the
    locationOffsets,        \* location
    countOfNs,
    setPair,                \* setPair[i][whichRead]: the hit set of a read in set pair i
    readWithMoreHits,
    hitLocations,           \* ring buffers, one for each set pair
    mateHitLocations,
    intersectionState,
    setPairDone,
    whichSetPairToCheck,
    scoreLimit,
    bestPairScore,
    probabilityOfBestPair,
    probabilityOfAllPairs,
    bestResultGenomeLocation,
    bestResultScore,
    bestResultOffset,       \* the genomeLocationOffset inside bestResultGenomeLocation
    fewerHit,               \* locals of one turn of the loop: fewerHitScore,
                            \* fewerHitProbability, genomeLocationOffset,
                            \* minLocationToCheck, and index of the for loop
    result,                 \* the PairedAlignmentResult
    apc,                    \* where align is
    \* ---- dvars
    records,
    nextToRead,
    recordsPerBatch,
    mates,
    runOffset,
    runLocation,
    runCount,
    dpc,
    \* ---- fvars
    typeA,
    typeB,
    composedType,
    resultOfA,
    resultOfB,
    calls,
    composedResult,
    fpc,
    \* ---- gvars
    translation,
    logicalAsked,
    virtualOffset,
    gpc,
    \* ---- bvars
    original,
    ascii,
    encoded,
    l_seq,
    storedQual,
    o_qual,
    bpc,
    \* ---- hvars
    hitSet,
    hitSetBefore,
    maxAsked,
    answer,
    hitSetCalls,
    hpc,
    \* ---- svars
    readLen,
    seedsWithN,
    whichRead,
    nextSeedToTest,
    wrapCount,
    seedUsed,
    countOfHashTableLookups,
    popularSeedsSkipped,
    totalHits,
    hashTableHitSets,
    seedHits,
    spc,
    \* ---- rvars
    lineLengths,
    pairedInput,
    headerSize,
    rangeStarts,
    readerKind,
    rangeIndex,
    pos,
    endPos,
    returnedCount,
    samPc,
    \* ---- tvars
    genomePieces,
    samReads,
    alignments,
    withMate,
    samLines,
    bamRecords,
    parsedBack,
    tpc,
    \* ---- kvars
    probabilityOfAllCandidates,
    probabilityOfBestCandidate,
    candidateScore,
    seedsSkipped,
    similarityMapGiven,
    biggestClusterScored,
    hammingUsed,
    mapq,
    kpc,
    \* ---- ivars
    readsToAlign,
    filterFlags,
    hasSamWriter,
    selectivity,
    alignerStats,
    alignedReads,
    samOutput,
    lastOutcome,
    \* ---- zvars
    gzValidBytes,
    gzStartBytes,
    gzOffset,
    priorBytes,
    gotBatchData,
    continueBlock,
    extraWritten,
    lastGzipData,
    zpc,
    \* ---- xvars
    supplierChain,
    supplierType,
    createdType,
    writersMade,
    batchesWritten,
    handoff,
    closeTakesWriter,
    xpc

qvars == <<mode, fileLen, emptyQueue, readyQueue, balance, nReadersRunning,
           nSuppliersRunning, allReadsQueued, pending, readsReady,
           emptyBuffersAvailable, allReadsConsumed, throttle, rpc, nextRecord,
           element, done, pendingReadInNextBatch, firstReadInNextBatch, cpc,
           currentElement, currentSecondElement, nextReadIndex, lastReturned,
           finishedWaiting, added, removed, releasedBefore>>

mvars == <<currentMapOffset, currentMapStartSize, currentMapSize, offset, currentBatch,
           startBytes, validBytes, earliestUnreleasedBatch, waiter, lockRecursive,
           ppc, lastGetData, releaser>>

ovars == <<bufferInfo, readOffset, endingOffset, nextBatchID, nextBufferForReader,
           nextBufferForConsumer, opc>>

wvars == <<count, filterType, sharedOffset, sharedLogical, batches, current, written,
           filterN, wpc, touched, handed>>

avars == <<dataLength, editDistances, matchProbabilities, locationOffsets, countOfNs, setPair, readWithMoreHits, hitLocations,
           mateHitLocations, intersectionState, setPairDone, whichSetPairToCheck,
           scoreLimit, bestPairScore, probabilityOfBestPair, probabilityOfAllPairs,
           bestResultGenomeLocation, bestResultScore, bestResultOffset, fewerHit,
           result, apc>>

dvars == <<records, nextToRead, mates, runOffset, runLocation, runCount, dpc, recordsPerBatch>>

fvars == <<typeA, typeB, composedType, resultOfA, resultOfB, calls, composedResult, fpc>>

gvars == <<translation, logicalAsked, virtualOffset, gpc>>

bvars == <<original, ascii, encoded, l_seq, storedQual, o_qual, bpc>>

hvars == <<hitSet, hitSetBefore, maxAsked, answer, hitSetCalls, hpc>>

svars == <<readLen, seedsWithN, whichRead, nextSeedToTest, wrapCount, seedUsed, countOfHashTableLookups, popularSeedsSkipped, totalHits, hashTableHitSets, seedHits, spc>>

rvars == <<lineLengths, pairedInput, headerSize, rangeStarts, readerKind, rangeIndex, pos, endPos, returnedCount, samPc>>

tvars == <<genomePieces, samReads, alignments, withMate, samLines, bamRecords, parsedBack, tpc>>

kvars == <<probabilityOfAllCandidates, probabilityOfBestCandidate, candidateScore, seedsSkipped, similarityMapGiven, biggestClusterScored, hammingUsed, mapq, kpc>>

ivars == <<readsToAlign, filterFlags, hasSamWriter, selectivity, alignerStats, alignedReads, samOutput, lastOutcome>>

zvars == <<gzValidBytes, gzStartBytes, gzOffset, priorBytes, gotBatchData, continueBlock, extraWritten, lastGzipData, zpc>>

xvars == <<supplierChain, supplierType, createdType, writersMade, batchesWritten, handoff, closeTakesWriter, xpc>>

vars == <<qvars, mvars, ovars, wvars, avars, dvars, fvars, gvars, bvars, hvars, svars, rvars, tvars, kvars, ivars, zvars, xvars>>

(***************************************************************************)
(* ReadSupplierQueue: construction                                         *)
(***************************************************************************)
isSingleReader == mode # "split"           \* NULL == singleReader[1]
hasPairedReader == mode = "paired"         \* pairedReader != NULL
twoFiles == mode = "split"
increment == IF hasPairedReader THEN 2 ELSE 1
balanceIncrement(r) == IF r = 1 THEN -1 ELSE 1
ActiveReaders == IF isSingleReader THEN {0} ELSE {0, 1}

FileLengths(m) ==
    IF m = "paired" THEN {n \in 1..MaxReads : n % 2 = 0} ELSE 1..MaxReads

\* commonInit followed by startReaders; the reader threads have not run yet
QueueInit ==
    /\ mode \in Modes
    /\ fileLen \in FileLengths(mode)
    /\ emptyQueue = 2
    /\ readyQueue = [q \in Readers |-> <<>>]
    /\ balance = 0
    /\ nReadersRunning = IF mode = "split" THEN 2 ELSE 1
    /\ nSuppliersRunning = 0
    /\ allReadsQueued = FALSE
    /\ pending = [b \in Batches |-> 0]
    /\ readsReady = FALSE
    /\ emptyBuffersAvailable = TRUE
    /\ allReadsConsumed = FALSE
    /\ throttle = [r \in Readers |-> TRUE]
    /\ rpc = [r \in Readers |-> IF r = 0 \/ mode = "split" THEN "start" ELSE "off"]
    /\ nextRecord = [r \in Readers |-> 1]
    /\ element = [r \in Readers |-> <<>>]
    /\ done = [r \in Readers |-> FALSE]
    \* bool pendingReadInNextBatch; is read before it is ever written
    /\ pendingReadInNextBatch \in [Readers -> BOOLEAN]
    /\ \A r \in Readers : rpc[r] = "off" => ~pendingReadInNextBatch[r]
    /\ firstReadInNextBatch = [r \in Readers |-> <<DefaultRead(r), DefaultRead(r)>>]
    /\ cpc = [c \in Suppliers |-> "new"]
    /\ currentElement = [c \in Suppliers |-> <<>>]
    /\ currentSecondElement = [c \in Suppliers |-> <<>>]
    /\ nextReadIndex = [c \in Suppliers |-> 0]
    /\ lastReturned = [c \in Suppliers |-> <<>>]
    /\ finishedWaiting = FALSE
    /\ added = [b \in Batches |-> 0]
    /\ removed = [b \in Batches |-> 0]
    /\ releasedBefore = {}

(***************************************************************************)
(* BatchTracker                                                            *)
(***************************************************************************)
\* BatchTracker::addRead
addRead(p, batch) == [p EXCEPT ![batch] = p[batch] + 1]

\* the batches that have an entry in the map (every value put is >= 1)
PendingKeys(p) == {k \in Batches : p[k] > 0}

SetMin(S) == CHOOSE x \in S : \A y \in S : x <= y

\* BatchTracker::removeRead: the new map, the batch stored to *release, the result
removeRead(p, batch) ==
    LET n == p[batch] IN
    IF n > 1
    THEN [pending |-> [p EXCEPT ![batch] = n - 1], release |-> 0, result |-> FALSE]
    ELSE LET minBatch == SetMin(PendingKeys(p) \cup {UINT32_MAX})
         IN  [pending |-> p, release |-> minBatch, result |-> batch < minBatch]

(***************************************************************************)
(* ReadSupplierQueue::ReaderThread                                         *)
(***************************************************************************)
\* a faulty throttle test that lets the reader get one element further ahead
OverFullOffByOne(r, bal) == (~isSingleReader) /\ bal * balanceIncrement(r) > MaxImbalance + 1

\* line 328: the reader is over full and has to wait on its throttle
OverFull(r, bal) == (~isSingleReader) /\ bal * balanceIncrement(r) > MaxImbalance

\* lines 338-350: wait for a buffer, take it, close the gate on the last one
TakeBuffer(eq, eba) ==
    IF eq = 0
    THEN [pc |-> "bufferWait", emptyQueue |-> eq, emptyBuffersAvailable |-> eba]
    ELSE [pc |-> "fill", emptyQueue |-> eq - 1,
          emptyBuffersAvailable |-> IF eq - 1 = 0 THEN FALSE ELSE eba]

\* lines 327-350, entered with the lock held
LoopHead(r, bal, eq, eba) ==
    IF OverFull(r, bal)
    THEN [pc |-> "throttleWait", emptyQueue |-> eq, emptyBuffersAvailable |-> eba]
    ELSE TakeBuffer(eq, eba)

UnchangedReaderLocals ==
    UNCHANGED <<nextRecord, element, done, pendingReadInNextBatch, firstReadInNextBatch>>
UnchangedSuppliers ==
    UNCHANGED <<cpc, currentElement, currentSecondElement, nextReadIndex, lastReturned,
                finishedWaiting, nSuppliersRunning, allReadsConsumed>>
UnchangedHistory == UNCHANGED <<added, removed, releasedBefore>>
UnchangedConfig == UNCHANGED <<mode, fileLen, mvars, ovars, wvars, avars, dvars, fvars, gvars, bvars, hvars, svars, rvars, tvars, kvars, ivars, zvars, xvars>>

\* lines 312-350: the thread starts, takes the lock and enters the loop
StartReaderThread(r) ==
    /\ rpc[r] = "start"
    /\ LET h == LoopHead(r, balance, emptyQueue, emptyBuffersAvailable) IN
        /\ rpc' = [rpc EXCEPT ![r] = h.pc]
        /\ emptyQueue' = h.emptyQueue
        /\ emptyBuffersAvailable' = h.emptyBuffersAvailable
    /\ UNCHANGED <<readyQueue, balance, nReadersRunning, allReadsQueued, pending,
                   readsReady, throttle>>
    /\ UnchangedReaderLocals /\ UnchangedSuppliers /\ UnchangedHistory /\ UnchangedConfig

\* lines 333-350: WaitForEvent(&throttle[firstOrSecond]) returns
ThrottleWake(r) ==
    /\ rpc[r] = "throttleWait"
    /\ throttle[r]
    /\ LET h == TakeBuffer(emptyQueue, emptyBuffersAvailable) IN
        /\ rpc' = [rpc EXCEPT ![r] = h.pc]
        /\ emptyQueue' = h.emptyQueue
        /\ emptyBuffersAvailable' = h.emptyBuffersAvailable
    /\ UNCHANGED <<readyQueue, balance, nReadersRunning, allReadsQueued, pending,
                   readsReady, throttle>>
    /\ UnchangedReaderLocals /\ UnchangedSuppliers /\ UnchangedHistory /\ UnchangedConfig

\* lines 338-350: WaitForEvent(&emptyBuffersAvailable) returns
BufferWake(r) ==
    /\ rpc[r] = "bufferWait"
    /\ emptyBuffersAvailable
    /\ LET h == TakeBuffer(emptyQueue, emptyBuffersAvailable) IN
        /\ rpc' = [rpc EXCEPT ![r] = h.pc]
        /\ emptyQueue' = h.emptyQueue
        /\ emptyBuffersAvailable' = h.emptyBuffersAvailable
    /\ UNCHANGED <<readyQueue, balance, nReadersRunning, allReadsQueued, pending,
                   readsReady, throttle>>
    /\ UnchangedReaderLocals /\ UnchangedSuppliers /\ UnchangedHistory /\ UnchangedConfig

\* what the underlying reader returns at the first slot of an element
\* (lines 358-364 and 378-385, element->totalReads = 0)
FirstReads(r) ==
    IF pendingReadInNextBatch[r]
    THEN [got |-> TRUE, next |-> nextRecord[r],
          reads |-> SubSeq(firstReadInNextBatch[r], 1, increment)]
    ELSE IF nextRecord[r] + increment - 1 > fileLen
    THEN [got |-> FALSE, next |-> nextRecord[r], reads |-> <<>>]
    ELSE [got |-> TRUE, next |-> nextRecord[r] + increment,
          reads |-> [k \in 1..increment |-> Record(r, nextRecord[r] + k - 1)]]

\* line 372: the test that ends an element at a batch boundary (single reads)
StartsNewBatch(e, t) == e[t].batch # e[t].batch

\* lines 394-396: the same test for a paired reader; e[t+1], e[t+2] were just read
PairStartsNewBatch(e, t) ==
    e[t - 1].batch # e[t + 1].batch \/ e[t].batch # e[t + 2].batch

\* lines 356-403 from element->totalReads = Len(e) > 0 on; pendingReadInNextBatch
\* is false here.  e: reads stored so far, nx: the reader's next record
RECURSIVE FillLoop(_, _, _)
FillLoop(r, e, nx) ==
    LET t == Len(e) IN
    IF t >= nReads
    THEN [element |-> e, next |-> nx, done |-> FALSE, pending |-> FALSE, first |-> <<>>]
    ELSE IF nx + increment - 1 > fileLen
    THEN [element |-> e, next |-> nx, done |-> TRUE, pending |-> FALSE, first |-> <<>>]
    ELSE LET got == [k \in 1..increment |-> Record(r, nx + k - 1)]
             e2 == e \o got
         IN  IF (IF hasPairedReader THEN PairStartsNewBatch(e2, t) ELSE StartsNewBatch(e2, t))
             THEN [element |-> e, next |-> nx + increment, done |-> FALSE,
                   pending |-> TRUE, first |-> got]
             ELSE FillLoop(r, e2, nx + increment)

\* lines 356-403: the whole fill loop.  Its one hold of the lock is the addRead of
\* the first read (pair); everything else touches only the thread's own state
FillElement(r) ==
    /\ rpc[r] = "fill"
    /\ LET f == FirstReads(r)
           g == IF f.got
                THEN FillLoop(r, f.reads, f.next)
                ELSE [element |-> <<>>, next |-> f.next, done |-> TRUE,
                      pending |-> FALSE, first |-> <<>>]
       IN
        /\ element' = [element EXCEPT ![r] = g.element]
        /\ nextRecord' = [nextRecord EXCEPT ![r] = g.next]
        /\ done' = [done EXCEPT ![r] = g.done]
        /\ pendingReadInNextBatch' = [pendingReadInNextBatch EXCEPT ![r] = g.pending]
        /\ firstReadInNextBatch' =
               [firstReadInNextBatch EXCEPT ![r] =
                    IF g.pending
                    THEN g.first \o SubSeq(@, Len(g.first) + 1, 2)
                    ELSE @]
        /\ IF f.got
           THEN LET p1 == addRead(pending, f.reads[1].batch)
                    p2 == IF hasPairedReader THEN addRead(p1, f.reads[2].batch) ELSE p1
                    a1 == addRead(added, f.reads[1].batch)
                    a2 == IF hasPairedReader THEN addRead(a1, f.reads[2].batch) ELSE a1
                IN  /\ pending' = p2
                    /\ added' = a2
           ELSE UNCHANGED <<pending, added>>
    /\ rpc' = [rpc EXCEPT ![r] = "push"]
    /\ UNCHANGED <<emptyQueue, readyQueue, balance, nReadersRunning, allReadsQueued,
                   readsReady, emptyBuffersAvailable, throttle, removed, releasedBefore>>
    /\ UnchangedSuppliers /\ UnchangedConfig

\* line 409: an element is ready for the consumers
SignalsReadsReady(r, rq) == isSingleReader \/ rq[1 - r] # <<>>

\* lines 416-431: balance after the push
BalanceAfterPush(r, bal) == IF isSingleReader THEN bal ELSE bal + balanceIncrement(r)

\* faulty gate handling that closes the pusher's gate and never reopens the other
ThrottleNeverReopened(r, bal, th) ==
    IF isSingleReader THEN th
    ELSE IF bal * balanceIncrement(r) > MaxImbalance
    THEN [th EXCEPT ![r] = FALSE]
    ELSE th

\* lines 418-430: the throttle gates after the push
ThrottleAfterPush(r, bal, th) ==
    IF isSingleReader THEN th
    ELSE IF bal * balanceIncrement(r) > MaxImbalance
    THEN [th EXCEPT ![r] = FALSE]
    ELSE IF bal * (-1) * balanceIncrement(r) = MaxImbalance
    THEN [th EXCEPT ![1 - r] = TRUE]
    ELSE th

\* lines 405-440 and, when the loop goes round, 327-350: one hold of the lock
PushElement(r) ==
    /\ rpc[r] = "push"
    /\ LET e == element[r]
           pushed == Len(e) > 0
           rq == IF pushed THEN [readyQueue EXCEPT ![r] = Append(@, e)] ELSE readyQueue
           bal == IF pushed THEN BalanceAfterPush(r, balance) ELSE balance
           h == LoopHead(r, bal, emptyQueue, emptyBuffersAvailable)
       IN
        /\ readyQueue' = rq
        /\ readsReady' = IF pushed /\ SignalsReadsReady(r, readyQueue) THEN TRUE ELSE readsReady
        /\ balance' = bal
        /\ throttle' = IF pushed THEN ThrottleAfterPush(r, bal, throttle) ELSE throttle
        /\ element' = [element EXCEPT ![r] = <<>>]
        /\ IF done[r]
           THEN /\ rpc' = [rpc EXCEPT ![r] = "exited"]
                /\ nReadersRunning' = nReadersRunning - 1
                /\ allReadsQueued' = IF nReadersRunning - 1 = 0 THEN TRUE ELSE allReadsQueued
                /\ UNCHANGED <<emptyQueue, emptyBuffersAvailable>>
           ELSE /\ rpc' = [rpc EXCEPT ![r] = h.pc]
                /\ emptyQueue' = h.emptyQueue
                /\ emptyBuffersAvailable' = h.emptyBuffersAvailable
                /\ UNCHANGED <<nReadersRunning, allReadsQueued>>
    /\ UNCHANGED <<pending, nextRecord, done, pendingReadInNextBatch, firstReadInNextBatch>>
    /\ UnchangedSuppliers /\ UnchangedHistory /\ UnchangedConfig

(***************************************************************************)
(* ReadSupplierQueue: the consumers' side                                  *)
(***************************************************************************)
\* ReadSupplierQueue::areAnyReadsReady
areAnyReadsReady(rq) ==
    IF rq[0] = <<>> THEN FALSE
    ELSE IF isSingleReader THEN TRUE
    ELSE rq[1] # <<>>

UnchangedReaders ==
    UNCHANGED <<rpc, nextRecord, element, done, pendingReadInNextBatch,
                firstReadInNextBatch, balance, nReadersRunning, allReadsQueued, throttle>>

\* generateNewReadSupplier / generateNewPairedReadSupplier
GenerateNewReadSupplier(c) ==
    /\ cpc[c] = "new"
    /\ nSuppliersRunning' = nSuppliersRunning + 1
    /\ emptyQueue' = emptyQueue + (IF twoFiles THEN 4 ELSE 2)
    /\ emptyBuffersAvailable' = TRUE
    /\ cpc' = [cpc EXCEPT ![c] = "idle"]
    /\ UNCHANGED <<readyQueue, pending, readsReady, allReadsConsumed, currentElement,
                   currentSecondElement, nextReadIndex, lastReturned, finishedWaiting>>
    /\ UnchangedReaders /\ UnchangedHistory /\ UnchangedConfig

\* ReadSupplierQueue::doneWithElement, lines 256-271, as the effect on the tracker:
\* the map, the batches removed and the batches passed to releaseBefore
TrackerAfterDone(p, e) ==
    LET r1 == removeRead(p, e[1].batch)
        r2 == IF hasPairedReader
              THEN removeRead(r1.pending, e[2].batch)
              ELSE [pending |-> r1.pending, release |-> 0, result |-> FALSE]
    IN  [pending |-> r2.pending,
         removed |-> IF hasPairedReader THEN <<e[1].batch, e[2].batch>> ELSE <<e[1].batch>>,
         released |-> (IF r1.result THEN {r1.release} ELSE {})
                          \cup (IF r2.result THEN {r2.release} ELSE {})]

RECURSIVE CountCalls(_, _)
CountCalls(h, bs) ==
    IF bs = <<>> THEN h ELSE CountCalls(addRead(h, Head(bs)), Tail(bs))

\* doneWithElement(e) as one hold of the lock
DoneWithElement(e) ==
    LET t == TrackerAfterDone(pending, e) IN
    /\ pending' = t.pending
    /\ removed' = CountCalls(removed, t.removed)
    /\ releasedBefore' = releasedBefore \cup t.released
    /\ emptyQueue' = emptyQueue + 1
    /\ emptyBuffersAvailable' = TRUE

\* the slot reads[i] of an element (0-based), a stale slot past totalReads included
Slot(e, i) == IF i + 1 <= Len(e) THEN e[i + 1] ELSE DefaultRead(1)

\* what getNextRead / getNextReadPair hands back from the current element(s)
ReturnedReads(e1, e2, i) ==
    IF twoFiles THEN <<Slot(e1, i), Slot(e2, i)>>
    ELSE IF hasPairedReader THEN <<Slot(e1, i), Slot(e1, i + 1)>>
    ELSE <<Slot(e1, i)>>

\* ReadSupplierFromQueue::getNextRead lines 457-476 and
\* PairedReadSupplierFromQueue::getNextReadPair lines 496-544, up to the call of
\* getElement / getElements
GetNextRead(c) ==
    /\ cpc[c] = "idle"
    /\ IF currentElement[c] # <<>> /\ nextReadIndex[c] >= Len(currentElement[c])
       THEN /\ DoneWithElement(currentElement[c])
            /\ currentElement' = [currentElement EXCEPT ![c] = <<>>]
            /\ cpc' = [cpc EXCEPT ![c] = IF twoFiles THEN "doneSecond" ELSE "getElement"]
            /\ UNCHANGED <<nextReadIndex, lastReturned, added>>
       ELSE IF currentElement[c] = <<>>
       THEN /\ cpc' = [cpc EXCEPT ![c] = "getElement"]
            /\ UNCHANGED <<pending, removed, releasedBefore, emptyQueue, added,
                           emptyBuffersAvailable, currentElement, nextReadIndex, lastReturned>>
       ELSE /\ lastReturned' = [lastReturned EXCEPT ![c] =
                    ReturnedReads(currentElement[c], currentSecondElement[c], nextReadIndex[c])]
            /\ nextReadIndex' = [nextReadIndex EXCEPT ![c] = @ + (IF twoFiles THEN 1 ELSE increment)]
            /\ UNCHANGED <<pending, removed, releasedBefore, emptyQueue, added,
                           emptyBuffersAvailable, currentElement, cpc>>
    /\ UNCHANGED <<readyQueue, readsReady, allReadsConsumed, currentSecondElement,
                   finishedWaiting, nSuppliersRunning>>
    /\ UnchangedReaders /\ UnchangedConfig

\* getNextReadPair lines 505-508: doneWithElement(currentSecondElement)
DoneWithSecondElement(c) ==
    /\ cpc[c] = "doneSecond"
    /\ DoneWithElement(currentSecondElement[c])
    /\ currentSecondElement' = [currentSecondElement EXCEPT ![c] = <<>>]
    /\ cpc' = [cpc EXCEPT ![c] = "getElement"]
    /\ UNCHANGED <<readyQueue, readsReady, allReadsConsumed, currentElement, nextReadIndex,
                   lastReturned, finishedWaiting, nSuppliersRunning, added>>
    /\ UnchangedReaders /\ UnchangedConfig

\* lines 199-201 / 231-233: close readsReady when nothing is left
ReadsReadyAfterTake(rq, rr) == IF ~areAnyReadsReady(rq) THEN FALSE ELSE rr

\* getElement lines 182-205 / getElements lines 213-236: one hold of the lock.
\* With reads ready the element(s) are taken and the first read is returned;
\* otherwise the lock is dropped and allReadsQueued is looked at next.
GetElement(c) ==
    /\ cpc[c] = "getElement"
    /\ IF areAnyReadsReady(readyQueue)
       THEN LET e1 == Head(readyQueue[0])
                e2 == IF twoFiles THEN Head(readyQueue[1]) ELSE <<>>
                rq == [q \in Readers |->
                          IF q = 0 \/ twoFiles THEN Tail(readyQueue[q]) ELSE readyQueue[q]]
            IN  /\ readyQueue' = rq
                /\ readsReady' = ReadsReadyAfterTake(rq, readsReady)
                /\ currentElement' = [currentElement EXCEPT ![c] = e1]
                /\ currentSecondElement' = [currentSecondElement EXCEPT ![c] = e2]
                /\ lastReturned' = [lastReturned EXCEPT ![c] = ReturnedReads(e1, e2, 0)]
                /\ nextReadIndex' = [nextReadIndex EXCEPT ![c] = IF twoFiles THEN 1 ELSE increment]
                /\ cpc' = [cpc EXCEPT ![c] = "idle"]
       ELSE /\ cpc' = [cpc EXCEPT ![c] = "checkQueued"]
            /\ UNCHANGED <<readyQueue, readsReady, currentElement, currentSecondElement,
                           lastReturned, nextReadIndex>>
    /\ UNCHANGED <<emptyQueue, pending, emptyBuffersAvailable, allReadsConsumed,
                   finishedWaiting, nSuppliersRunning>>
    /\ UnchangedReaders /\ UnchangedHistory /\ UnchangedConfig

\* lines 184-191 / 215-222: the lock is released, then allReadsQueued is read
CheckAllReadsQueued(c) ==
    /\ cpc[c] = "checkQueued"
    /\ cpc' = [cpc EXCEPT ![c] = IF allReadsQueued THEN "supplierFinished" ELSE "waitReadsReady"]
    /\ UNCHANGED <<emptyQueue, readyQueue, pending, readsReady, emptyBuffersAvailable,
                   allReadsConsumed, currentElement, currentSecondElement, nextReadIndex,
                   lastReturned, finishedWaiting, nSuppliersRunning>>
    /\ UnchangedReaders /\ UnchangedHistory /\ UnchangedConfig

\* lines 191-192 / 222-223: WaitForEvent(&readsReady) returns
WaitForReadsReady(c) ==
    /\ cpc[c] = "waitReadsReady"
    /\ readsReady
    /\ cpc' = [cpc EXCEPT ![c] = "getElement"]
    /\ UNCHANGED <<emptyQueue, readyQueue, pending, readsReady, emptyBuffersAvailable,
                   allReadsConsumed, currentElement, currentSecondElement, nextReadIndex,
                   lastReturned, finishedWaiting, nSuppliersRunning>>
    /\ UnchangedReaders /\ UnchangedHistory /\ UnchangedConfig

\* ReadSupplierQueue::supplierFinished, called when getElement(s) reported the end
SupplierFinished(c) ==
    /\ cpc[c] = "supplierFinished"
    /\ nSuppliersRunning' = nSuppliersRunning - 1
    /\ allReadsConsumed' = IF nSuppliersRunning - 1 = 0 THEN TRUE ELSE allReadsConsumed
    /\ cpc' = [cpc EXCEPT ![c] = "finished"]
    /\ UNCHANGED <<emptyQueue, readyQueue, pending, readsReady, emptyBuffersAvailable,
                   currentElement, currentSecondElement, nextReadIndex, lastReturned,
                   finishedWaiting>>
    /\ UnchangedReaders /\ UnchangedHistory /\ UnchangedConfig

\* ReadSupplierQueue::waitUntilFinished returns
WaitUntilFinished ==
    /\ ~finishedWaiting
    /\ allReadsConsumed
    /\ finishedWaiting' = TRUE
    /\ UNCHANGED <<emptyQueue, readyQueue, pending, readsReady, emptyBuffersAvailable,
                   allReadsConsumed, cpc, currentElement, currentSecondElement,
                   nextReadIndex, lastReturned, nSuppliersRunning>>
    /\ UnchangedReaders /\ UnchangedHistory /\ UnchangedConfig

ReaderStep(r) ==
    \/ StartReaderThread(r)
    \/ ThrottleWake(r)
    \/ BufferWake(r)
    \/ FillElement(r)
    \/ PushElement(r)

SupplierStep(c) ==
    \/ GenerateNewReadSupplier(c)
    \/ GetNextRead(c)
    \/ DoneWithSecondElement(c)
    \/ GetElement(c)
    \/ CheckAllReadsQueued(c)
    \/ WaitForReadsReady(c)
    \/ SupplierFinished(c)

Next ==
    \/ \E r \in Readers : ReaderStep(r)
    \/ \E c \in Suppliers : SupplierStep(c)
    \/ WaitUntilFinished

(***************************************************************************)
(* MemMapDataReader: one producer thread reads the file through getData /  *)
(* advance / nextBatch / reinit, other threads call releaseBefore.         *)
(***************************************************************************)
Releasers == 1..NumReleasers

Min(a, b) == IF a < b THEN a ELSE b
Max(a, b) == IF a > b THEN a ELSE b

\* a - b on _uint32: below zero it wraps to a value no batch count reaches
Sub32(a, b) == IF a >= b THEN a - b ELSE UINT32_MAX

\* the values the model gives a member the constructor leaves uninitialized
Uninitialized == 0..(batchSize + overflowBytes)

\* the (startingOffset, amountOfFileToProcess) pairs reinit is called with
ReinitArgs == {0, batchSize} \X {0, 2 * batchSize}

\* the byte counts advance is called with
AdvanceBytes == 1..batchSize

\* the constructor and init(fileName).  offset, validBytes and
\* currentMapStartSize are written by reinit before anything reads them
MemMapConstructed ==
    /\ currentMapOffset = 0
    /\ currentMapStartSize = 0
    /\ currentMapSize = 0
    /\ offset = 0
    /\ currentBatch = 1
    /\ validBytes = 0
    /\ earliestUnreleasedBatch = 1
    /\ waiter = FALSE
    /\ ppc = "constructed"
    /\ lastGetData = "none"
    /\ releaser = [t \in Releasers |-> [pc |-> "idle", batch |-> 0]]

UnchangedQueue == UNCHANGED <<qvars, ovars, wvars, avars, dvars, fvars, gvars, bvars, hvars, svars, rvars, tvars, kvars, ivars, zvars, xvars>>

\* MemMapDataReader::reinit (readHeader calls it too)
reinit(startingOffset, amountOfFileToProcess) ==
    /\ ppc \in {"constructed", "idle"}
    /\ LET startSize ==
               Max(0, Min(IF amountOfFileToProcess = 0 THEN fileSize ELSE amountOfFileToProcess,
                          fileSize - startingOffset))
           amount == Max(0, Min(startSize + overflowBytes, fileSize - startingOffset))
       IN
        /\ currentMapOffset' = startingOffset
        /\ currentMapStartSize' = startSize
        /\ currentMapSize' = amount
        /\ offset' = 0
        /\ validBytes' = Min(amount, batchSize)
    /\ currentBatch' = 1
    /\ earliestUnreleasedBatch' = 1
    /\ waiter' = IF batchCount # 1 THEN TRUE ELSE waiter
    /\ ppc' = "idle"
    /\ UNCHANGED <<startBytes, lockRecursive, lastGetData, releaser>>
    /\ UnchangedQueue

\* line 918: the flow-control test of getData, made without the lock
GateClosed ==
    batchCount # 1 /\ Sub32(currentBatch, earliestUnreleasedBatch) >= batchCount

\* lines 921-929: what getData returns once it is past the gate
getDataResult == IF offset >= startBytes THEN FALSE ELSE validBytes - offset > 0

\* MemMapDataReader::getData up to WaitForSingleWaiterObject
getData ==
    /\ ppc = "idle"
    /\ IF GateClosed
       THEN /\ ppc' = "gateWait"
            /\ UNCHANGED lastGetData
       ELSE /\ lastGetData' = IF getDataResult THEN "data" ELSE "nothing"
            /\ UNCHANGED ppc
    /\ UNCHANGED <<currentMapOffset, currentMapStartSize, currentMapSize, offset,
                   currentBatch, startBytes, validBytes, earliestUnreleasedBatch, waiter,
                   lockRecursive, releaser>>
    /\ UnchangedQueue

\* lines 919-929: WaitForSingleWaiterObject(&waiter) returns and getData goes on
GateWake ==
    /\ ppc = "gateWait"
    /\ waiter
    /\ ppc' = "idle"
    /\ lastGetData' = IF getDataResult THEN "data" ELSE "nothing"
    /\ UNCHANGED <<currentMapOffset, currentMapStartSize, currentMapSize, offset,
                   currentBatch, startBytes, validBytes, earliestUnreleasedBatch, waiter,
                   lockRecursive, releaser>>
    /\ UnchangedQueue

\* MemMapDataReader::advance
advance(bytes) ==
    /\ ppc = "idle"
    /\ offset' = Min(offset + Max(0, bytes), validBytes)
    /\ UNCHANGED <<currentMapOffset, currentMapStartSize, currentMapSize, currentBatch,
                   startBytes, validBytes, earliestUnreleasedBatch, waiter, lockRecursive,
                   ppc, lastGetData, releaser>>
    /\ UnchangedQueue

\* MemMapDataReader::isEOF
isEOF == currentBatch * batchSize >= currentMapSize

\* MemMapDataReader::getBatch
getBatch == currentBatch

\* MemMapDataReader::getFileOffset
getFileOffset == currentMapOffset + (currentBatch - 1) * batchSize + offset

\* line 957: the start-region size of batch cb
StartRegion(cb) == Min(batchSize, currentMapStartSize - (cb - 1) * batchSize)

\* line 958: the valid size of batch cb
ValidRegion(cb) == Min(batchSize + overflowBytes, currentMapSize - (cb - 1) * batchSize)

\* line 979: the test releaseBefore makes before it takes the lock
ReleaseGuard(batch, earliest) == batch > earliest

\* line 981: releaseBefore opens the gate
ReleaseSignals(cb, earliest, batch) ==
    batchCount # 1 /\ Sub32(cb, earliest) >= batchCount /\ Sub32(cb, batch) < batchCount

\* lines 951-953: nextBatch(dontRelease = true) closes the gate
NextBatchResets(cb, earliest) == batchCount # 1 /\ Sub32(cb, earliest) >= batchCount

\* MemMapDataReader::nextBatch at EOF returns at once
nextBatchAtEOF ==
    /\ ppc = "idle"
    /\ isEOF
    /\ UNCHANGED mvars
    /\ UnchangedQueue

\* MemMapDataReader::nextBatch, lines 946-960.  With dontRelease false it calls
\* releaseBefore while it holds the lock: a lock that cannot be taken twice stops
\* the thread there, with the lock held
nextBatch(dontRelease) ==
    /\ ppc = "idle"
    /\ ~isEOF
    /\ LET cb == currentBatch + 1
           releases == (~dontRelease) /\ ReleaseGuard(cb, earliestUnreleasedBatch)
           stuck == releases /\ batchCount # 1 /\ ~lockRecursive
       IN
        /\ currentBatch' = cb
        /\ waiter' = IF dontRelease
                     THEN (IF NextBatchResets(cb, earliestUnreleasedBatch) THEN FALSE ELSE waiter)
                     ELSE IF stuck THEN waiter
                     ELSE IF releases /\ ReleaseSignals(cb, earliestUnreleasedBatch, cb)
                     THEN TRUE
                     ELSE waiter
        /\ earliestUnreleasedBatch' = IF releases /\ ~stuck THEN Min(cb, cb)
                                      ELSE earliestUnreleasedBatch
        /\ startBytes' = IF stuck THEN startBytes ELSE StartRegion(cb)
        /\ validBytes' = IF stuck THEN validBytes ELSE ValidRegion(cb)
        /\ ppc' = IF stuck THEN "deadlocked" ELSE "idle"
    /\ UNCHANGED <<currentMapOffset, currentMapStartSize, currentMapSize, offset,
                   lockRecursive, lastGetData, releaser>>
    /\ UnchangedQueue

\* MemMapDataReader::releaseBefore line 979, on a thread of its own: the test of
\* earliestUnreleasedBatch before the lock is taken
ReleaseBeforeTest(t, batch) ==
    /\ releaser[t].pc = "idle"
    /\ ppc # "constructed"
    /\ ReleaseGuard(batch, earliestUnreleasedBatch)
    /\ releaser' = [releaser EXCEPT ![t] = [pc |-> "acquire", batch |-> batch]]
    /\ UNCHANGED <<currentMapOffset, currentMapStartSize, currentMapSize, offset,
                   currentBatch, startBytes, validBytes, earliestUnreleasedBatch, waiter,
                   lockRecursive, ppc, lastGetData>>
    /\ UnchangedQueue

\* lines 980-985: releaseBefore with the lock held
ReleaseBeforeLocked(t) ==
    /\ releaser[t].pc = "acquire"
    /\ ppc # "deadlocked"
    /\ waiter' = IF ReleaseSignals(currentBatch, earliestUnreleasedBatch, releaser[t].batch)
                 THEN TRUE ELSE waiter
    /\ earliestUnreleasedBatch' = Min(currentBatch, releaser[t].batch)
    /\ releaser' = [releaser EXCEPT ![t] = [pc |-> "idle", batch |-> 0]]
    /\ UNCHANGED <<currentMapOffset, currentMapStartSize, currentMapSize, offset,
                   currentBatch, startBytes, validBytes, lockRecursive, ppc, lastGetData>>
    /\ UnchangedQueue

\* the batch IDs a releasing thread passes: those handed out so far and the next
ReleasedBatches == 1..(currentBatch + 1)

MemMapNext ==
    \/ \E a \in ReinitArgs : reinit(a[1], a[2])
    \/ getData
    \/ GateWake
    \/ \E n \in AdvanceBytes : advance(n)
    \/ nextBatchAtEOF
    \/ \E d \in BOOLEAN : nextBatch(d)
    \/ \E t \in Releasers : \E b \in ReleasedBatches : ReleaseBeforeTest(t, b)
    \/ \E t \in Releasers : ReleaseBeforeLocked(t)

(***************************************************************************)
(* WindowsOverlappedDataReader: a ring of nBuffers buffers; startIo        *)
(* launches reads into the empty ones, the consumer walks the ring with    *)
(* getData / advance / nextBatch and gives buffers back with releaseBefore.*)
(* All calls come from the one thread that owns the reader.                *)
(***************************************************************************)
BufferIndex == 0..(nBuffers - 1)

\* the constructor: batchID, validBytes, nBytesThatMayBeginARead, fileOffset and
\* the OVERLAPPED are not set there; startIo writes them before a buffer leaves
\* the Empty state, and nothing reads them from an Empty buffer but the batchID
\* comparison of releaseBefore, which then does nothing.  lap is the byte count
\* GetOverlappedResult reports for the buffer's last read
OverlappedConstructed ==
    /\ bufferInfo = [i \in BufferIndex |->
                        [state |-> "Empty", validBytes |-> 0, nBytesThatMayBeginARead |-> 0,
                         isEOF |-> FALSE, offset |-> 0, fileOffset |-> 0, batchID |-> 0,
                         lap |-> 0]]
    /\ readOffset = 0
    /\ endingOffset = 0
    /\ nextBatchID = 1
    /\ nextBufferForReader = 0
    /\ nextBufferForConsumer = 0

\* the members startIo and waitForBuffer work on
ReaderState == [bufferInfo |-> bufferInfo, readOffset |-> readOffset,
                nextBatchID |-> nextBatchID, nextBufferForReader |-> nextBufferForReader]

\* WindowsOverlappedDataReader::startIo with endingOffset = ending
RECURSIVE startIo(_, _)
startIo(st, ending) ==
    LET n == st.nextBufferForReader
        info == st.bufferInfo[n]
        finalOffset == Min(fileSize, ending + overflowBytes)
        finalStartOffset == Min(fileSize, ending)
        amountToRead == Min(finalOffset - st.readOffset, bufferSize)
        mayBegin == Min(bufferSize - overflowBytes, finalStartOffset - st.readOffset)
    IN
    IF info.state # "Empty" THEN st
    ELSE IF st.readOffset >= fileSize \/ st.readOffset >= ending
    THEN [st EXCEPT !.bufferInfo[n] =
                        [info EXCEPT !.batchID = st.nextBatchID,
                                     !.validBytes = 0,
                                     !.nBytesThatMayBeginARead = 0,
                                     !.isEOF = st.readOffset >= fileSize,
                                     !.state = "Full"],
                    !.nextBatchID = @ + 1]
    ELSE startIo([st EXCEPT !.bufferInfo[n] =
                                [info EXCEPT !.batchID = st.nextBatchID,
                                             !.isEOF = (st.readOffset + amountToRead = finalOffset),
                                             !.nBytesThatMayBeginARead = mayBegin,
                                             !.fileOffset = st.readOffset,
                                             !.lap = amountToRead,
                                             !.state = "Reading",
                                             !.offset = 0],
                            !.readOffset = @ + mayBegin,
                            !.nextBatchID = @ + 1,
                            !.nextBufferForReader = (n + 1) % nBuffers],
                 ending)

\* WindowsOverlappedDataReader::waitForBuffer
waitForBuffer(st, ending, bufferNumber) ==
    IF st.bufferInfo[bufferNumber].state = "Full" THEN st
    ELSE LET started == IF st.bufferInfo[bufferNumber].state # "Reading"
                        THEN startIo(st, ending) ELSE st
             info == started.bufferInfo[bufferNumber]
         IN [started EXCEPT !.bufferInfo[bufferNumber] =
                                [info EXCEPT !.validBytes = info.lap, !.state = "Full"]]

\* the reader's members become those of st
InstallReaderState(st) ==
    /\ bufferInfo' = st.bufferInfo
    /\ readOffset' = st.readOffset
    /\ nextBatchID' = st.nextBatchID
    /\ nextBufferForReader' = st.nextBufferForReader

UnchangedOthers == UNCHANGED <<qvars, mvars, wvars, avars, dvars, fvars, gvars, bvars, hvars, svars, rvars, tvars, kvars, ivars, zvars, xvars>>

\* lines 207-214 of reinit: pending reads complete, every buffer is reset
RECURSIVE ResetBuffers(_, _, _)
ResetBuffers(st, ending, i) ==
    IF i = nBuffers THEN st
    ELSE LET waited == IF st.bufferInfo[i].state = "Reading"
                       THEN waitForBuffer(st, ending, i) ELSE st
         IN ResetBuffers([waited EXCEPT !.bufferInfo[i] =
                                            [@ EXCEPT !.state = "Empty", !.isEOF = FALSE,
                                                      !.offset = 0]],
                         ending, i + 1)

\* WindowsOverlappedDataReader::reinit
OverlappedReinit(startingOffset, amountOfFileToProcess) ==
    /\ opc \in {"constructed", "ready"}
    /\ nextBatchID <= MaxBatchID
    /\ LET ending == IF amountOfFileToProcess = 0 THEN fileSize
                     ELSE Min(fileSize, startingOffset + amountOfFileToProcess)
           reset == [ResetBuffers(ReaderState, endingOffset, 0)
                        EXCEPT !.nextBufferForReader = 0, !.readOffset = startingOffset]
       IN /\ InstallReaderState(waitForBuffer(startIo(reset, ending), ending, 0))
          /\ endingOffset' = ending
    /\ nextBufferForConsumer' = 0
    /\ opc' = "ready"
    /\ UnchangedOthers

\* WindowsOverlappedDataReader::getData: what it returns
OverlappedGetDataResult ==
    LET info == bufferInfo[nextBufferForConsumer] IN
    IF info.isEOF /\ info.offset >= info.validBytes THEN FALSE
    ELSE info.offset < info.nBytesThatMayBeginARead

\* WindowsOverlappedDataReader::getData
OverlappedGetData ==
    /\ opc = "ready"
    /\ IF OverlappedGetDataResult /\ bufferInfo[nextBufferForConsumer].state # "Full"
       THEN InstallReaderState(waitForBuffer(ReaderState, endingOffset, nextBufferForConsumer))
       ELSE UNCHANGED <<bufferInfo, readOffset, nextBatchID, nextBufferForReader>>
    /\ UNCHANGED <<endingOffset, nextBufferForConsumer, opc>>
    /\ UnchangedOthers

\* WindowsOverlappedDataReader::advance
OverlappedAdvance(bytes) ==
    /\ opc = "ready"
    /\ bufferInfo' = [bufferInfo EXCEPT ![nextBufferForConsumer].offset =
                          @ + Min(bufferInfo[nextBufferForConsumer].validBytes - @, Max(0, bytes))]
    /\ UNCHANGED <<readOffset, endingOffset, nextBatchID, nextBufferForReader,
                   nextBufferForConsumer, opc>>
    /\ UnchangedOthers

\* WindowsOverlappedDataReader::isEOF
OverlappedIsEOF == bufferInfo[nextBufferForConsumer].isEOF

\* WindowsOverlappedDataReader::getBatch
OverlappedGetBatch == bufferInfo[nextBufferForConsumer].batchID

\* lines 321-335 of releaseBefore with no buffer given back
ReleaseNoBuffers(buffers, batch) == buffers

\* lines 321-335 of releaseBefore: a Reading buffer falls through to Full where
\* _ASSERT is compiled out
ReleaseBuffers(buffers, batch) ==
    [i \in BufferIndex |->
        IF buffers[i].batchID < batch /\ buffers[i].state # "Empty"
        THEN [buffers[i] EXCEPT !.state = "Empty"]
        ELSE buffers[i]]

\* WindowsOverlappedDataReader::releaseBefore, on the reader state st
releaseBefore(st, ending, batch) ==
    startIo([st EXCEPT !.bufferInfo = ReleaseBuffers(st.bufferInfo, batch)], ending)

\* line 282 without the test: nextBatch moves on from the last buffer
nextBatchNeverStops(info) == FALSE

\* line 282: nextBatch does nothing but release once the current buffer is the last
nextBatchStops(info) == info.isEOF

\* WindowsOverlappedDataReader::nextBatch
OverlappedNextBatch(dontRelease) ==
    /\ opc = "ready"
    /\ nextBatchID <= MaxBatchID
    /\ LET info == bufferInfo[nextBufferForConsumer]
           overflow == Max(info.offset, info.nBytesThatMayBeginARead)
                           - info.nBytesThatMayBeginARead
           next == (nextBufferForConsumer + 1) % nBuffers
           waited == waitForBuffer(ReaderState, endingOffset, next)
           moved == startIo([waited EXCEPT !.bufferInfo[next].offset = overflow],
                            endingOffset)
       IN IF nextBatchStops(info)
          THEN /\ InstallReaderState(
                      IF dontRelease THEN ReaderState
                      ELSE releaseBefore(ReaderState, endingOffset, info.batchID + 1))
               /\ UNCHANGED nextBufferForConsumer
          ELSE /\ InstallReaderState(
                      IF dontRelease THEN moved
                      ELSE releaseBefore(moved, endingOffset, moved.bufferInfo[next].batchID))
               /\ nextBufferForConsumer' = next
    /\ UNCHANGED <<endingOffset, opc>>
    /\ UnchangedOthers

\* WindowsOverlappedDataReader::releaseBefore called by the reader's owner
OverlappedReleaseBefore(batch) ==
    /\ opc = "ready"
    /\ nextBatchID <= MaxBatchID
    /\ InstallReaderState(releaseBefore(ReaderState, endingOffset, batch))
    /\ UNCHANGED <<endingOffset, nextBufferForConsumer, opc>>
    /\ UnchangedOthers

\* the batches the owner releases: the ones the consumer has reached
OverlappedReleased == 1..OverlappedGetBatch

OverlappedNext ==
    \/ \E a \in ReinitArgs : OverlappedReinit(a[1], a[2])
    \/ OverlappedGetData
    \/ \E n \in AdvanceBytes : OverlappedAdvance(n)
    \/ \E d \in BOOLEAN : OverlappedNextBatch(d)
    \/ \E b \in OverlappedReleased : OverlappedReleaseBefore(b)

(***************************************************************************)
(* AsyncDataWriter and AsyncDataWriterSupplier (DataWriter.cpp): every     *)
(* worker thread owns one writer with count rotating buffers; the writers  *)
(* share the supplier's (sharedOffset, sharedLogical) pair.  AsyncFile is  *)
(* not part of the sources: a Batch's file field says whether the write    *)
(* begun on its AsyncFile::Writer is still outstanding.                    *)
(***************************************************************************)
Writers == 1..NumWriters
FilterTypes == {"None", "Read", "Modify", "Copy", "Transform"}
BatchIndex == 0..(count - 1)

\* AsyncDataWriterSupplier's and AsyncDataWriter's constructors
WriterConstructed ==
    /\ sharedOffset = 0
    /\ sharedLogical = 0
    /\ batches = [w \in Writers |-> [i \in BatchIndex |->
                     [used |-> 0, fileOffset |-> 0, logicalUsed |-> 0, logicalOffset |-> 0,
                      file |-> FALSE]]]
    /\ current = [w \in Writers |-> 0]
    /\ written = [w \in Writers |-> 0]
    /\ filterN = [w \in Writers |-> 0]
    /\ touched = [w \in Writers |-> FALSE]
    /\ handed = {}

UnchangedReadersAndQueue == UNCHANGED <<qvars, mvars, ovars, avars, dvars, fvars, gvars, bvars, hvars, svars, rvars, tvars, kvars, ivars, zvars, xvars>>

\* lines 192-193 of nextBatch
newBuffer == filterType \in {"Copy", "Transform"}
newSize == filterType = "Transform"

\* AsyncDataWriter::getBuffer and advance: the worker appends bytes to the current
\* buffer (here in one call per batch); the filters' onAdvance keeps offsets and
\* writes no buffer
WriterAdvance(w, bytes) ==
    /\ wpc[w] = "idle"
    /\ batches[w][current[w]].used = 0
    /\ bytes <= writerBufferSize - batches[w][current[w]].used
    /\ batches' = [batches EXCEPT ![w][current[w]].used = Min(writerBufferSize, @ + bytes)]
    /\ touched' = [touched EXCEPT ![w] = @ \/ batches[w][current[w]].file]
    /\ UNCHANGED <<count, filterType, sharedOffset, sharedLogical, current, written,
                   filterN, wpc, handed>>
    /\ UnchangedReadersAndQueue

\* advance handing out the physical offset as the logical one too
SupplierAdvanceLogicalFromPhysical(physical, logical) ==
    [o_physical |-> sharedOffset, o_logical |-> sharedOffset,
     sharedOffset |-> sharedOffset + physical, sharedLogical |-> sharedLogical + logical]

\* AsyncDataWriterSupplier::advance with the lock held: the offsets it hands out
\* and the shared pair it leaves
SupplierAdvance(physical, logical) ==
    [o_physical |-> sharedOffset, o_logical |-> sharedLogical,
     sharedOffset |-> sharedOffset + physical, sharedLogical |-> sharedLogical + logical]

\* nextBatch lines 187-200: the buffer is rotated out; a Transform filter gets the
\* shared offsets as they are now (read without the lock, sharedOffset first),
\* every other writer reserves its range
NextBatchRotate(w) ==
    /\ wpc[w] = "idle"
    /\ Cardinality(handed) + Cardinality({v \in Writers : wpc[v] \notin {"idle", "off"}})
           < MaxHandoffs
    /\ LET wr == current[w]
           cur == (current[w] + 1) % count
           used == batches[w][wr].used
           adv == SupplierAdvance(used, used)
       IN
        /\ written' = [written EXCEPT ![w] = wr]
        /\ current' = [current EXCEPT ![w] = cur]
        /\ IF newSize
           THEN /\ batches' = [batches EXCEPT ![w][wr].logicalUsed = used,
                                              ![w][cur].used = 0,
                                              ![w][wr].fileOffset = sharedOffset]
                /\ UNCHANGED <<sharedOffset, sharedLogical>>
                /\ wpc' = [wpc EXCEPT ![w] = "advisory"]
           ELSE /\ batches' = [batches EXCEPT ![w][wr].logicalUsed = used,
                                              ![w][cur].used = 0,
                                              ![w][wr].fileOffset = adv.o_physical,
                                              ![w][wr].logicalOffset = adv.o_logical]
                /\ sharedOffset' = adv.sharedOffset
                /\ sharedLogical' = adv.sharedLogical
                /\ wpc' = [wpc EXCEPT ![w] = IF filterType = "None" THEN "begin" ELSE "filter"]
    /\ UNCHANGED <<count, filterType, filterN, touched, handed>>
    /\ UnchangedReadersAndQueue

\* line 197: the second read made without the lock
NextBatchAdvisory(w) ==
    /\ wpc[w] = "advisory"
    /\ batches' = [batches EXCEPT ![w][written[w]].logicalOffset = sharedLogical]
    /\ wpc' = [wpc EXCEPT ![w] = "filter"]
    /\ UNCHANGED <<count, filterType, sharedOffset, sharedLogical, current, written,
                   filterN, touched, handed>>
    /\ UnchangedReadersAndQueue

\* AsyncDataWriter::getBatch: the index it resolves relative to, or -1 for false
getBatchIndex(w, relative) ==
    IF relative < 1 - count \/ relative > count - 1 THEN -1
    ELSE (current[w] + relative + count) % count

\* BAMFilter::getRead: the buffer that holds logical file offset o, or -1.  The
\* buffer of getBatch(-1) is tried first, then getBatch(-2), getBatch(-3), ...
\* until getBatch returns false
RECURSIVE getReadFrom(_, _, _)
getReadFrom(w, o, i) ==
    LET index == getBatchIndex(w, i) IN
    IF index = -1 THEN -1
    ELSE IF /\ o >= batches[w][index].logicalOffset
            /\ o < batches[w][index].logicalOffset + batches[w][index].logicalUsed
    THEN index
    ELSE getReadFrom(w, o, i - 1)

getRead(w, o) == getReadFrom(w, o, -1)

\* the logical offsets a duplicate-marking filter may go back to: the start of a
\* run of reads at one location, in this batch or in an earlier one
RunOffsets == 0..sharedLogical

\* filter->onNextBatch of a Read filter, and of a Modify filter
\* (BAMFilter::onNextBatch with BAMDupMarkFilter::onRead): for a read of the
\* batch that ends a run, the filter goes back to the reads of the run through
\* getRead and sets their flags where they lie
FilterInPlace(w) ==
    /\ wpc[w] = "filter"
    /\ ~newBuffer
    /\ IF filterType = "Modify" /\ batches[w][written[w]].logicalUsed > 0
       THEN \E o \in RunOffsets :
               LET index == getRead(w, o) IN
               touched' = IF index = -1 THEN touched
                          ELSE [touched EXCEPT ![w] = @ \/ batches[w][index].file]
       ELSE UNCHANGED touched
    /\ wpc' = [wpc EXCEPT ![w] = "begin"]
    /\ UNCHANGED <<count, filterType, sharedOffset, sharedLogical, batches, current, written,
                   filterN, handed>>
    /\ UnchangedReadersAndQueue

\* filter->onNextBatch of a Copy or Transform filter: it asks for its output
\* buffer with getBatch(0, ...), which waits for that buffer's write, fills it
\* and returns the number of bytes it produced
FilterNewBuffer(w, n) ==
    /\ wpc[w] = "filter"
    /\ newBuffer
    /\ getBatchIndex(w, 0) = current[w]
    /\ ~batches[w][current[w]].file
    /\ newSize \/ n = batches[w][written[w]].used
    /\ filterN' = [filterN EXCEPT ![w] = n]
    /\ touched' = [touched EXCEPT ![w] = @ \/ batches[w][current[w]].file]
    /\ wpc' = [wpc EXCEPT ![w] = "begin"]
    /\ UNCHANGED <<count, filterType, sharedOffset, sharedLogical, batches, current, written,
                   handed>>
    /\ UnchangedReadersAndQueue

\* nextBatch lines 203-221: a Transform writer reserves its range now; with a new
\* buffer the output buffer becomes the one to write and current moves on once
\* more; beginWrite starts the write.  An I/O error ends the process
NextBatchBeginWrite(w) ==
    /\ wpc[w] = "begin"
    /\ LET wr == written[w]
           cur == current[w]
           adv == SupplierAdvance(filterN[w], batches[w][wr].logicalUsed)
           sized == IF newSize
                    THEN [batches[w] EXCEPT ![wr].used = filterN[w],
                                            ![wr].fileOffset = adv.o_physical,
                                            ![wr].logicalOffset = adv.o_logical]
                    ELSE batches[w]
           next == (cur + 1) % count
           moved == IF newBuffer
                    THEN [sized EXCEPT ![cur].used = sized[wr].used,
                                       ![cur].fileOffset = sized[wr].fileOffset,
                                       ![cur].logicalUsed = 0,
                                       ![cur].logicalOffset = sized[wr].logicalOffset,
                                       ![wr].used = 0]
                    ELSE sized
           out == IF newBuffer THEN cur ELSE wr
           reset == IF newBuffer
                    THEN [moved EXCEPT ![next].used = 0, ![next].logicalUsed = 0]
                    ELSE moved
       IN
        /\ ~reset[out].file
        /\ batches' = [batches EXCEPT ![w] = [reset EXCEPT ![out].file = TRUE]]
        /\ written' = [written EXCEPT ![w] = out]
        /\ current' = [current EXCEPT ![w] = IF newBuffer THEN next ELSE cur]
        /\ sharedOffset' = IF newSize THEN adv.sharedOffset ELSE sharedOffset
        /\ sharedLogical' = IF newSize THEN adv.sharedLogical ELSE sharedLogical
        /\ handed' = handed \cup
               {[writer |-> w,
                 fileOffset |-> moved[out].fileOffset, used |-> moved[out].used,
                 logicalOffset |-> moved[out].logicalOffset,
                 logicalUsed |-> moved[out].logicalUsed,
                 filledOffset |-> sized[wr].logicalOffset,
                 filledUsed |-> sized[wr].logicalUsed]}
    /\ wpc' = [wpc EXCEPT ![w] = "wait"]
    /\ filterN' = [filterN EXCEPT ![w] = 0]
    /\ UNCHANGED <<count, filterType, touched>>
    /\ UnchangedReadersAndQueue

\* nextBatch lines 224-227: waitForCompletion on the new current buffer returns
NextBatchReturns(w) ==
    /\ wpc[w] = "wait"
    /\ ~batches[w][current[w]].file
    /\ wpc' = [wpc EXCEPT ![w] = "idle"]
    /\ UNCHANGED <<count, filterType, sharedOffset, sharedLogical, batches, current, written,
                   filterN, touched, handed>>
    /\ UnchangedReadersAndQueue

\* the operating system completes an outstanding write
WriteCompletes(w, i) ==
    /\ batches[w][i].file
    /\ batches' = [batches EXCEPT ![w][i].file = FALSE]
    /\ UNCHANGED <<count, filterType, sharedOffset, sharedLogical, current, written,
                   filterN, touched, wpc, handed>>
    /\ UnchangedReadersAndQueue

WriterNext ==
    \/ \E w \in Writers : \E n \in 1..writerBufferSize : WriterAdvance(w, n)
    \/ \E w \in Writers : NextBatchRotate(w)
    \/ \E w \in Writers : NextBatchAdvisory(w)
    \/ \E w \in Writers : FilterInPlace(w)
    \/ \E w \in Writers : \E n \in 0..writerBufferSize : FilterNewBuffer(w, n)
    \/ \E w \in Writers : NextBatchBeginWrite(w)
    \/ \E w \in Writers : NextBatchReturns(w)
    \/ \E w \in Writers : \E i \in BatchIndex : WriteCompletes(w, i)

(***************************************************************************)
(* IntersectingPairedEndAligner::align, from the intersection of the hit   *)
(* sets (phase 2) to the reported result.  The seed lookups of phase 1     *)
(* are the input: Init draws the recorded lookups of each hit set.  The    *)
(* edit distances come from LandauVishkin, which is not part of the        *)
(* sources: scoreLocation returns any score its limit allows.  Seed        *)
(* offsets returned next to a location only feed scoreLocation: align      *)
(* does not keep them.  An unsigned is scaled down to 8 bits.              *)
(***************************************************************************)
Unsigned(x) == x % (InvalidGenomeLocation + 1)

SetPairs == 0..(NUM_SET_PAIRS - 1)
ReadsOfPair == 0..(NUM_READS_PER_PAIR - 1)
SeedOffsets == 0..MaxSeedOffset
\* no value: the NULL getNext returns, a field nothing was written to, a void result
Unset == -1
StaleLocations == 0..MaxLocation

\* HashTableHitSet::recordLookup
recordLookup(seedOffset, hits) ==
    [seedOffset |-> seedOffset, hits |-> hits, currentHitForIntersection |-> 0]

\* HashTableHitSet::init followed by the recordLookup calls of phase 1
HitSetOf(lookups) == [lookups |-> lookups, mostRecentLocationReturned |-> Unset]

nHits(lookup) == Len(lookup.hits)

\* lookups[i].hits[k] - lookups[i].seedOffset
hitLocation(lookup, k) == Unsigned(lookup.hits[k + 1] - lookup.seedOffset)

totalHashTableHits(set) ==
    LET RECURSIVE Sum(_)
        Sum(i) == IF i > Len(set.lookups) THEN 0 ELSE nHits(set.lookups[i]) + Sum(i + 1)
    IN Sum(1)

\* HashTableHitSet::getFirstHit
RECURSIVE getFirstHitFrom(_, _, _)
getFirstHitFrom(set, i, out) ==
    IF i > Len(set.lookups) THEN out
    ELSE IF hitLocation(set.lookups[i], 0) > out.genomeLocation
         THEN getFirstHitFrom(set, i + 1,
                  [anyFound |-> TRUE,
                   genomeLocation |-> hitLocation(set.lookups[i], 0),
                   set |-> [out.set EXCEPT !.mostRecentLocationReturned =
                                               hitLocation(set.lookups[i], 0)]])
         ELSE getFirstHitFrom(set, i + 1, out)

getFirstHit(set) ==
    getFirstHitFrom(set, 1, [anyFound |-> FALSE, genomeLocation |-> 0, set |-> set])

\* the binary search of getNextHitLessThanOrEqualTo in one lookup, between
\* limit[0] and limit[1]: the probe it stops at, or -1 when limit[0] > limit[1]
RECURSIVE searchLookup(_, _, _, _)
searchLookup(lookup, limit0, limit1, maxGenomeOffsetToFindThisSeed) ==
    IF limit0 > limit1 THEN -1
    ELSE LET probe == (limit0 + limit1) \div 2
             clause1 == lookup.hits[probe + 1] <= maxGenomeOffsetToFindThisSeed
             clause2 == probe = 0
         IN  IF clause1 /\ (clause2 \/ lookup.hits[probe] > maxGenomeOffsetToFindThisSeed)
             THEN probe
             ELSE IF lookup.hits[probe + 1] > maxGenomeOffsetToFindThisSeed
                  THEN searchLookup(lookup, probe + 1, limit1, maxGenomeOffsetToFindThisSeed)
                  ELSE searchLookup(lookup, limit0, probe - 1, maxGenomeOffsetToFindThisSeed)

\* HashTableHitSet::getNextHitLessThanOrEqualTo ("the old way"); genomeLocation
\* of out starts as the value *actualGenomeOffsetFound had before the call, and
\* seedOffset as no value: align reads *seedOffsetFound only after a call set it
RECURSIVE getNextHitLessThanOrEqualToFrom(_, _, _, _)
getNextHitLessThanOrEqualToFrom(maxGenomeOffsetToFind, i, bestOffsetFound, out) ==
    IF i > Len(out.set.lookups) THEN out
    ELSE LET lookup == out.set.lookups[i]
             probe == searchLookup(lookup, lookup.currentHitForIntersection,
                                   nHits(lookup) - 1,
                                   Unsigned(maxGenomeOffsetToFind - lookup.seedOffset))
         IN  IF probe = -1
             THEN getNextHitLessThanOrEqualToFrom(maxGenomeOffsetToFind, i + 1, bestOffsetFound,
                      [out EXCEPT !.set.lookups[i].currentHitForIntersection = nHits(lookup)])
             ELSE IF hitLocation(lookup, probe) > bestOffsetFound
                  THEN getNextHitLessThanOrEqualToFrom(maxGenomeOffsetToFind, i + 1,
                           hitLocation(lookup, probe),
                           [anyFound |-> TRUE,
                            genomeLocation |-> hitLocation(lookup, probe),
                            seedOffset |-> lookup.seedOffset,
                            set |-> [out.set EXCEPT
                                       !.mostRecentLocationReturned = hitLocation(lookup, probe),
                                       !.lookups[i].currentHitForIntersection = probe]])
                  ELSE getNextHitLessThanOrEqualToFrom(maxGenomeOffsetToFind, i + 1,
                           bestOffsetFound,
                           [anyFound |-> TRUE,
                            genomeLocation |-> out.genomeLocation,
                            seedOffset |-> out.seedOffset,
                            set |-> [out.set EXCEPT
                                       !.lookups[i].currentHitForIntersection = probe]])

getNextHitLessThanOrEqualTo(set, maxGenomeOffsetToFind, actualGenomeOffsetFound) ==
    getNextHitLessThanOrEqualToFrom(maxGenomeOffsetToFind, 1, 0,
        [anyFound |-> FALSE, genomeLocation |-> actualGenomeOffsetFound,
         seedOffset |-> Unset, set |-> set])

\* HashTableHitSet::getNextLowerHit; genomeLocation of out starts as the value
\* *genomeLocation had before the call
RECURSIVE getNextLowerHitFrom(_, _, _, _)
getNextLowerHitFrom(mostRecent, i, foundLocation, out) ==
    IF i > Len(out.set.lookups)
    THEN IF out.anyFound
         THEN [out EXCEPT !.set.mostRecentLocationReturned = foundLocation]
         ELSE out
    ELSE LET lookup == out.set.lookups[i]
             cur == lookup.currentHitForIntersection
             pushed == IF cur # nHits(lookup) /\ hitLocation(lookup, cur) = mostRecent
                       THEN cur + 1 ELSE cur
             moved == [out EXCEPT !.set.lookups[i].currentHitForIntersection = pushed]
         IN  IF pushed # nHits(lookup)
             THEN IF foundLocation < hitLocation(lookup, pushed)
                  THEN getNextLowerHitFrom(mostRecent, i + 1, hitLocation(lookup, pushed),
                           [moved EXCEPT !.anyFound = TRUE,
                                         !.genomeLocation = hitLocation(lookup, pushed)])
                  ELSE getNextLowerHitFrom(mostRecent, i + 1, foundLocation,
                           [moved EXCEPT !.anyFound = TRUE])
             ELSE getNextLowerHitFrom(mostRecent, i + 1, foundLocation, moved)

\* stale is what mostRecentLocationReturned holds when no call has set it
getNextLowerHit(set, genomeLocation, stale) ==
    getNextLowerHitFrom(IF set.mostRecentLocationReturned = Unset
                        THEN stale ELSE set.mostRecentLocationReturned,
                        1, 0,
                        [anyFound |-> FALSE, genomeLocation |-> genomeLocation, set |-> set])

(***************************************************************************)
(* HitLocationRingBuffer                                                   *)
(***************************************************************************)
HitLocation == [genomeLocation |-> 0, genomeLocationOffset |-> 0, isScored |-> FALSE,
                score |-> 0, maxK |-> 0, matchProbability |-> 0]

HitLocationRingBuffer(size) ==
    [bufferSize |-> size, head |-> 0, tail |-> 0, buffer |-> [i \in 0..(size - 1) |-> HitLocation]]

isEmpty(ring) == ring.head = ring.tail

insertHead(ring, genomeLocation) ==
    [ring EXCEPT !.buffer[ring.head].genomeLocation = genomeLocation,
                 !.buffer[ring.head].isScored = FALSE,
                 !.head = (ring.head + 1) % ring.bufferSize]

\* the overload that records a score
insertHeadScored(ring, genomeLocation, score, matchProbability) ==
    [insertHead(ring, genomeLocation) EXCEPT
        !.buffer[ring.head].isScored = TRUE,
        !.buffer[ring.head].score = score,
        !.buffer[ring.head].matchProbability = matchProbability]

clear(ring) == [ring EXCEPT !.head = 0, !.tail = 0]

RECURSIVE trimAboveLocation(_, _)
trimAboveLocation(ring, highestGenomeLocatonToKeep) ==
    IF ring.tail # ring.head /\ ring.buffer[ring.tail].genomeLocation > highestGenomeLocatonToKeep
    THEN trimAboveLocation([ring EXCEPT !.tail = (ring.tail + 1) % ring.bufferSize],
                           highestGenomeLocatonToKeep)
    ELSE ring

getTail(ring) == ring.buffer[ring.tail]

\* getNext: the index after index, or Unset where the code returns NULL
getNext(ring, index) ==
    IF (index + 1) % ring.bufferSize = ring.head THEN Unset ELSE (index + 1) % ring.bufferSize

\* the entries getTail / getNext walk through, from the tail to the head
RECURSIVE EntriesFrom(_, _)
EntriesFrom(ring, index) ==
    IF index = Unset THEN <<>>
    ELSE <<ring.buffer[index].genomeLocation>> \o
         (IF index = (ring.head + ring.bufferSize - 1) % ring.bufferSize
          THEN <<>> ELSE EntriesFrom(ring, (index + 1) % ring.bufferSize))

Entries(ring) == IF isEmpty(ring) THEN <<>> ELSE EntriesFrom(ring, ring.tail)

(***************************************************************************)
(* IntersectingPairedEndAligner::align                                     *)
(***************************************************************************)
readWithFewerHits == 1 - readWithMoreHits

UnchangedInput ==
    UNCHANGED <<dataLength, editDistances, matchProbabilities, locationOffsets, countOfNs,
                readWithMoreHits>>
UnchangedBest ==
    UNCHANGED <<bestPairScore, probabilityOfBestPair, probabilityOfAllPairs, scoreLimit,
                bestResultGenomeLocation, bestResultScore, bestResultOffset>>
UnchangedAlignerRest == UNCHANGED <<qvars, mvars, ovars, wvars, dvars, fvars, gvars, bvars, hvars, svars, rvars, tvars, kvars, ivars, zvars, xvars>>

\* the locals of a turn of the loop, outside their scope
NoLocals == [score |-> 0, matchProbability |-> 0, genomeLocationOffset |-> 0,
             minLocationToCheck |-> 0, index |-> Unset]

AlignerConstructed ==
    /\ hitLocations = [i \in SetPairs |-> HitLocationRingBuffer(maxMergeDistance * 2 + 2)]
    /\ mateHitLocations = [i \in SetPairs |-> HitLocationRingBuffer(2 * (maxSpacing + 1) + 2)]
    /\ intersectionState = [i \in SetPairs |->
           [lastGenomeLocationForReadWithFewerHits |-> 0,
            lastGenomeLocationForReadWithMoreHits |-> 0]]
    /\ setPairDone = [i \in SetPairs |-> FALSE]
    /\ whichSetPairToCheck = 0
    /\ scoreLimit = 0
    /\ bestPairScore = 0
    /\ probabilityOfBestPair = 0
    /\ probabilityOfAllPairs = 0
    /\ bestResultGenomeLocation = [r \in ReadsOfPair |-> 0]
    /\ bestResultScore = [r \in ReadsOfPair |-> 0]
    /\ bestResultOffset = [r \in ReadsOfPair |-> 0]
    /\ fewerHit = NoLocals
    /\ result = [location |-> [r \in ReadsOfPair |-> 0],
                 score |-> [r \in ReadsOfPair |-> 0],
                 status |-> [r \in ReadsOfPair |-> "none"]]

\* the reads are too short or hold too many Ns: alignWithBaseAligner aligns each
\* read on its own; it leaves result->status as the caller passed it
AlignWithBaseAligner ==
    /\ apc = "align"
    /\ dataLength < 50 \/ countOfNs > maxK
    /\ \E location \in [ReadsOfPair -> 0..MaxLocation \cup {InvalidGenomeLocation}],
          score \in [ReadsOfPair -> 0..(maxK \div 2)],
          status \in [ReadsOfPair -> {"NotFound", "SingleHit", "MultipleHits"}] :
           result' = [location |-> location, score |-> score, status |-> status]
    /\ apc' = "done"
    /\ UNCHANGED <<setPair, hitLocations, mateHitLocations, intersectionState, setPairDone,
                   whichSetPairToCheck, fewerHit>>
    /\ UnchangedBest
    /\ UnchangedInput
    /\ UnchangedAlignerRest

\* the start of phase 2: the first lookup of each set pair
AlignSeedIntersection ==
    /\ apc = "align"
    /\ ~(dataLength < 50 \/ countOfNs > maxK)
    /\ LET first == [i \in SetPairs |-> getFirstHit(setPair[i][readWithFewerHits])]
       IN  /\ setPair' = [i \in SetPairs |->
                             [setPair[i] EXCEPT ![readWithFewerHits] = first[i].set]]
           /\ intersectionState' = [i \in SetPairs |->
                  [lastGenomeLocationForReadWithFewerHits |-> first[i].genomeLocation,
                   lastGenomeLocationForReadWithMoreHits |-> InvalidGenomeLocation]]
           /\ setPairDone' = [i \in SetPairs |-> ~first[i].anyFound]
           /\ whichSetPairToCheck' = IF ~first[0].anyFound THEN 1 ELSE 0
    /\ hitLocations' = [i \in SetPairs |-> clear(hitLocations[i])]
    /\ mateHitLocations' = [i \in SetPairs |-> clear(mateHitLocations[i])]
    /\ probabilityOfBestPair' = 0
    /\ probabilityOfAllPairs' = 0
    /\ bestPairScore' = NoPairScore
    /\ scoreLimit' = maxK + extraScoreLimit
    /\ apc' = "loop"
    /\ UNCHANGED <<bestResultGenomeLocation, bestResultScore, bestResultOffset, fewerHit,
                   result>>
    /\ UnchangedInput
    /\ UnchangedAlignerRest

\* a loop that stays with its set pair for as long as that one has hits
NextSetPairStays(found) ==
    /\ setPairDone' = IF found THEN setPairDone
                      ELSE [setPairDone EXCEPT ![whichSetPairToCheck] = TRUE]
    /\ whichSetPairToCheck' =
           IF ~found THEN 1 - whichSetPairToCheck ELSE whichSetPairToCheck

\* "setPairDone[w] = true; w = 1 - w" or "if (!setPairDone[1 - w]) w = 1 - w"
NextSetPair(found) ==
    /\ setPairDone' = IF found THEN setPairDone
                      ELSE [setPairDone EXCEPT ![whichSetPairToCheck] = TRUE]
    /\ whichSetPairToCheck' =
           IF ~found \/ ~setPairDone[1 - whichSetPairToCheck]
           THEN 1 - whichSetPairToCheck ELSE whichSetPairToCheck

\* the top of the loop: bring the mate ring in range of the hit of the read with
\* fewer hits, and skip that hit when no mate can pair with it
FindMates ==
    /\ apc = "loop"
    /\ ~(setPairDone[0] /\ setPairDone[1])
    /\ LET w == whichSetPairToCheck
           smallReadHitGenomeLocation ==
               intersectionState[w].lastGenomeLocationForReadWithFewerHits
           tooHigh == intersectionState[w].lastGenomeLocationForReadWithMoreHits >
                          Unsigned(smallReadHitGenomeLocation + maxSpacing)
           mate == getNextHitLessThanOrEqualTo(setPair[w][readWithMoreHits],
                       Unsigned(smallReadHitGenomeLocation + maxSpacing),
                       intersectionState[w].lastGenomeLocationForReadWithMoreHits)
           ring == IF tooHigh
                   THEN insertHead(clear(mateHitLocations[w]), mate.genomeLocation)
                   ELSE trimAboveLocation(mateHitLocations[w],
                                          Unsigned(smallReadHitGenomeLocation + maxSpacing))
           lastMore == IF tooHigh THEN mate.genomeLocation
                       ELSE intersectionState[w].lastGenomeLocationForReadWithMoreHits
           minLocationToCheck ==
               IF smallReadHitGenomeLocation >= maxSpacing
               THEN smallReadHitGenomeLocation - maxSpacing ELSE 0
           moreHitsLocation ==
               IF isEmpty(ring) THEN lastMore ELSE getTail(ring).genomeLocation
           fewer == getNextHitLessThanOrEqualTo(setPair[w][readWithFewerHits],
                        Unsigned(moreHitsLocation + maxSpacing),
                        smallReadHitGenomeLocation)
       IN  IF tooHigh /\ ~mate.anyFound
           THEN \* nothing left for the mate: done with this set pair
                /\ mateHitLocations' = [mateHitLocations EXCEPT ![w] = clear(@)]
                /\ setPair' = [setPair EXCEPT ![w][readWithMoreHits] = mate.set]
                /\ intersectionState' = [intersectionState EXCEPT
                       ![w].lastGenomeLocationForReadWithMoreHits = mate.genomeLocation]
                /\ setPairDone' = [setPairDone EXCEPT ![w] = TRUE]
                /\ whichSetPairToCheck' = 1 - w
                /\ UNCHANGED <<fewerHit, apc>>
           ELSE IF isEmpty(ring) \/ getTail(ring).genomeLocation < minLocationToCheck
           THEN \* no possible mate pair here: next hit of the read with fewer hits
                /\ mateHitLocations' = [mateHitLocations EXCEPT ![w] = ring]
                /\ setPair' = [setPair EXCEPT
                       ![w] = [r \in ReadsOfPair |->
                                  IF r = readWithFewerHits THEN fewer.set
                                  ELSE IF tooHigh THEN mate.set ELSE setPair[w][r]]]
                /\ intersectionState' = [intersectionState EXCEPT
                       ![w].lastGenomeLocationForReadWithMoreHits = lastMore,
                       ![w].lastGenomeLocationForReadWithFewerHits = fewer.genomeLocation]
                /\ NextSetPair(fewer.anyFound)
                /\ UNCHANGED <<fewerHit, apc>>
           ELSE /\ mateHitLocations' = [mateHitLocations EXCEPT ![w] = ring]
                /\ setPair' = [setPair EXCEPT ![w][readWithMoreHits] =
                                  IF tooHigh THEN mate.set ELSE @]
                /\ intersectionState' = [intersectionState EXCEPT
                       ![w].lastGenomeLocationForReadWithMoreHits = lastMore]
                /\ fewerHit' = [fewerHit EXCEPT !.minLocationToCheck = minLocationToCheck]
                /\ apc' = "score"
                /\ UNCHANGED <<setPairDone, whichSetPairToCheck>>
    /\ UNCHANGED <<hitLocations, result>>
    /\ UnchangedBest
    /\ UnchangedInput
    /\ UnchangedAlignerRest

\* scoreLocation: -1 or a score within the limit, a match probability and the
\* offset the reverse edit distance gives the location
ScoreLocationResults(limit) ==
    {[score |-> -1, matchProbability |-> 0, genomeLocationOffset |-> 0]} \cup
    {[score |-> s, matchProbability |-> p, genomeLocationOffset |-> o] :
        s \in {d \in editDistances : d <= limit}, p \in matchProbabilities,
        o \in locationOffsets}

\* the while loop that adds potential mate pairs to the ring buffer
RECURSIVE addMates(_, _, _, _, _)
addMates(set, ring, lastMore, minLocationToCheck, stale) ==
    IF lastMore >= minLocationToCheck
    THEN LET next == getNextLowerHit(set, lastMore, stale)
         IN  IF ~next.anyFound
             THEN [set |-> next.set, ring |-> ring, lastMore |-> next.genomeLocation]
             ELSE addMates(next.set, insertHead(ring, next.genomeLocation),
                           next.genomeLocation, minLocationToCheck, stale)
    ELSE [set |-> set, ring |-> ring, lastMore |-> lastMore]

\* the first entry of the for loop over the mate ring, or Unset when it is over
MateToScore(ring, index, minLocationToCheck) ==
    IF index # Unset /\ ring.buffer[index].genomeLocation >= minLocationToCheck
    THEN index ELSE Unset

\* score the hit of the read with fewer hits; on a score, put it in hitLocations
\* and add the mates in range to the mate ring
ScoreFewerHits ==
    /\ apc = "score"
    /\ \E scored \in ScoreLocationResults(scoreLimit), stale \in StaleLocations :
        LET w == whichSetPairToCheck
            smallReadHitGenomeLocation ==
                intersectionState[w].lastGenomeLocationForReadWithFewerHits
            lower == getNextLowerHit(setPair[w][readWithFewerHits],
                                     smallReadHitGenomeLocation, stale)
            withMates == addMates(setPair[w][readWithMoreHits], mateHitLocations[w],
                              intersectionState[w].lastGenomeLocationForReadWithMoreHits,
                              fewerHit.minLocationToCheck, stale)
        IN  IF scored.score = -1
            THEN /\ setPair' = [setPair EXCEPT ![w][readWithFewerHits] = lower.set]
                 /\ intersectionState' = [intersectionState EXCEPT
                        ![w].lastGenomeLocationForReadWithFewerHits = lower.genomeLocation]
                 /\ NextSetPair(lower.anyFound)
                 /\ apc' = "loop"
                 /\ fewerHit' = NoLocals
                 /\ UNCHANGED <<hitLocations, mateHitLocations>>
            ELSE /\ hitLocations' = [hitLocations EXCEPT ![w] =
                        insertHeadScored(
                            trimAboveLocation(@, Unsigned(smallReadHitGenomeLocation
                                                          + maxMergeDistance)),
                            smallReadHitGenomeLocation, scored.score,
                            scored.matchProbability)]
                 /\ setPair' = [setPair EXCEPT ![w][readWithMoreHits] = withMates.set]
                 /\ mateHitLocations' = [mateHitLocations EXCEPT ![w] = withMates.ring]
                 /\ intersectionState' = [intersectionState EXCEPT
                        ![w].lastGenomeLocationForReadWithMoreHits = withMates.lastMore]
                 /\ fewerHit' = [fewerHit EXCEPT
                        !.score = scored.score,
                        !.matchProbability = scored.matchProbability,
                        !.genomeLocationOffset = scored.genomeLocationOffset,
                        !.index = MateToScore(withMates.ring,
                                      IF isEmpty(withMates.ring) THEN Unset ELSE withMates.ring.tail,
                                      fewerHit.minLocationToCheck)]
                 /\ apc' = "mates"
                 /\ UNCHANGED <<setPairDone, whichSetPairToCheck>>
    /\ UNCHANGED result
    /\ UnchangedBest
    /\ UnchangedInput
    /\ UnchangedAlignerRest

potentialMateAtAnyDistanceBelow(delta) == delta <= maxSpacing

\* "This is in a location that makes it a potential mate candidate"
potentialMate(delta) == delta <= maxSpacing /\ delta >= minSpacing

\* a limit that grows with the best pair's score from the limit of the start
scoreLimitAboveStart(pairScore) == maxK + extraScoreLimit + pairScore

\* line 517: scoreLimit = bestPairScore + distanceToSearchBeyondBestScore
scoreLimitForBest(pairScore) == pairScore + distanceToSearchBeyondBestScore

\* one turn of the for loop over the saved mate hit locations
ScoreMateCandidate ==
    /\ apc = "mates"
    /\ fewerHit.index # Unset
    /\ LET w == whichSetPairToCheck
           index == fewerHit.index
           mateHitLocation == mateHitLocations[w].buffer[index]
           smallReadHitGenomeLocation ==
               intersectionState[w].lastGenomeLocationForReadWithFewerHits
           largerGenomeOffset ==
               IF mateHitLocation.genomeLocation > smallReadHitGenomeLocation
               THEN mateHitLocation.genomeLocation ELSE smallReadHitGenomeLocation
           smallerGenomeOffset ==
               IF mateHitLocation.genomeLocation < smallReadHitGenomeLocation
               THEN mateHitLocation.genomeLocation ELSE smallReadHitGenomeLocation
           delta == largerGenomeOffset - smallerGenomeOffset
           candidate == potentialMate(delta)
           rescore == ~mateHitLocation.isScored
                      \/ (mateHitLocation.score = -1
                          /\ mateHitLocation.maxK < scoreLimit - fewerHit.score)
       IN  \E scored \in ScoreLocationResults(scoreLimit - fewerHit.score) :
             LET mate == IF candidate /\ rescore
                         THEN [mateHitLocation EXCEPT
                                 !.genomeLocationOffset = scored.genomeLocationOffset,
                                 !.score = scored.score,
                                 !.matchProbability = scored.matchProbability,
                                 !.isScored = TRUE,
                                 !.maxK = scoreLimit - fewerHit.score]
                         ELSE mateHitLocation
                 paired == candidate /\ mate.score # -1
                 pairProbability == mate.matchProbability * fewerHit.matchProbability
                 pairScore == mate.score + fewerHit.score
                 newBest == /\ paired
                            /\ pairScore <= maxK
                            /\ \/ pairScore < bestPairScore
                               \/ pairScore = bestPairScore
                                  /\ pairProbability > probabilityOfBestPair
                 allPairs == IF paired THEN probabilityOfAllPairs + pairProbability
                             ELSE probabilityOfAllPairs
             IN  /\ mateHitLocations' = [mateHitLocations EXCEPT ![w].buffer[index] = mate]
                 /\ IF newBest
                    THEN /\ bestPairScore' = pairScore
                         /\ probabilityOfBestPair' = pairProbability
                         /\ bestResultGenomeLocation' =
                                [r \in ReadsOfPair |->
                                    IF r = readWithFewerHits
                                    THEN Unsigned(smallReadHitGenomeLocation
                                                  + fewerHit.genomeLocationOffset)
                                    ELSE Unsigned(mate.genomeLocation
                                                  + mate.genomeLocationOffset)]
                         /\ bestResultScore' =
                                [r \in ReadsOfPair |->
                                    IF r = readWithFewerHits THEN fewerHit.score
                                    ELSE mate.score]
                         /\ bestResultOffset' =
                                [r \in ReadsOfPair |->
                                    IF r = readWithFewerHits
                                    THEN fewerHit.genomeLocationOffset
                                    ELSE mate.genomeLocationOffset]
                         /\ scoreLimit' = scoreLimitForBest(pairScore)
                    ELSE UNCHANGED <<bestPairScore, probabilityOfBestPair,
                                     bestResultGenomeLocation, bestResultScore,
                                     bestResultOffset, scoreLimit>>
                 /\ probabilityOfAllPairs' = allPairs
                 /\ IF allPairs >= GiveUpProbability /\ paired
                    THEN /\ apc' = "doneScoring"
                         /\ fewerHit' = NoLocals
                    ELSE /\ apc' = "mates"
                         /\ fewerHit' = [fewerHit EXCEPT !.index =
                                MateToScore(mateHitLocations[w],
                                            getNext(mateHitLocations[w], index),
                                            fewerHit.minLocationToCheck)]
    /\ UNCHANGED <<setPair, hitLocations, intersectionState, setPairDone,
                   whichSetPairToCheck, result>>
    /\ UnchangedInput
    /\ UnchangedAlignerRest

\* after the for loop: advance the lookup in the read with fewer hits
AdvanceFewerHits ==
    /\ apc = "mates"
    /\ fewerHit.index = Unset
    /\ \E stale \in StaleLocations :
        LET w == whichSetPairToCheck
            lower == getNextLowerHit(setPair[w][readWithFewerHits],
                         intersectionState[w].lastGenomeLocationForReadWithFewerHits, stale)
        IN  /\ setPair' = [setPair EXCEPT ![w][readWithFewerHits] = lower.set]
            /\ intersectionState' = [intersectionState EXCEPT
                   ![w].lastGenomeLocationForReadWithFewerHits = lower.genomeLocation]
            /\ setPairDone' = IF lower.anyFound THEN setPairDone
                              ELSE [setPairDone EXCEPT ![w] = TRUE]
            /\ whichSetPairToCheck' = IF ~setPairDone[1 - w] THEN 1 - w ELSE w
    /\ apc' = "loop"
    /\ fewerHit' = NoLocals
    /\ UNCHANGED <<hitLocations, mateHitLocations, result>>
    /\ UnchangedBest
    /\ UnchangedInput
    /\ UnchangedAlignerRest

\* doneScoring: report the best pair, or NotFound
ReportResult ==
    /\ \/ apc = "doneScoring"
       \/ apc = "loop" /\ setPairDone[0] /\ setPairDone[1]
    /\ result' =
           IF bestPairScore = NoPairScore
           THEN [location |-> [r \in ReadsOfPair |-> InvalidGenomeLocation],
                 score |-> [r \in ReadsOfPair |-> -1],
                 status |-> [r \in ReadsOfPair |-> "NotFound"]]
           ELSE [location |-> bestResultGenomeLocation,
                 score |-> bestResultScore,
                 status |-> [r \in ReadsOfPair |-> "SingleHit"]]
    /\ apc' = "done"
    /\ UNCHANGED <<setPair, hitLocations, mateHitLocations, intersectionState, setPairDone,
                   whichSetPairToCheck, fewerHit>>
    /\ UnchangedBest
    /\ UnchangedInput
    /\ UnchangedAlignerRest

AlignerNext ==
    \/ AlignWithBaseAligner
    \/ AlignSeedIntersection
    \/ FindMates
    \/ ScoreFewerHits
    \/ ScoreMateCandidate
    \/ AdvanceFewerHits
    \/ ReportResult

(***************************************************************************)
(* BAMDupMarkFilter (Bam.cpp): BAMFilter::onNextBatch passes the records   *)
(* of the sorted file to onRead one by one.  A record's file offset is its *)
(* position in records (the BAM header comes first, so no record is at     *)
(* offset 0, and every record is one unit long); all records are still in  *)
(* the writer's buffers, so getRead finds every offset.  FLAG is the set   *)
(* of the SAM flags that are set.                                          *)
(***************************************************************************)
SAMFlags == {"SAM_MULTI_SEGMENT", "SAM_UNMAPPED", "SAM_REVERSE_COMPLEMENT",
             "SAM_NEXT_REVERSED", "SAM_FIRST_SEGMENT", "SAM_LAST_SEGMENT", "SAM_DUPLICATE"}

\* BAMAlignment, as far as the filter reads it
BAMAlignment(name, location, nextLocation, FLAG, qual) ==
    [read_name |-> name, location |-> location, nextLocation |-> nextLocation,
     FLAG |-> FLAG, qual |-> qual]

\* readIdsMatch (Read.h)
readIdsMatch(a, b) == a = b

\* BAMDupMarkFilter::getTotalQuality
RECURSIVE getTotalQualityFrom(_, _)
getTotalQualityFrom(qual, i) ==
    IF i > Len(qual) THEN 0
    ELSE (IF qual[i] # 255 THEN qual[i] ELSE 0) + getTotalQualityFrom(qual, i + 1)

getTotalQuality(bam) == getTotalQualityFrom(bam.qual, 1)

\* DuplicateReadKey(bam, genome): <<locations[0], locations[1], isRC[0], isRC[1]>>
DuplicateReadKey(bam) ==
    IF bam.location <= bam.nextLocation
    THEN <<bam.location, bam.nextLocation,
           "SAM_REVERSE_COMPLEMENT" \in bam.FLAG, "SAM_NEXT_REVERSED" \in bam.FLAG>>
    ELSE <<bam.nextLocation, bam.location,
           "SAM_NEXT_REVERSED" \in bam.FLAG, "SAM_REVERSE_COMPLEMENT" \in bam.FLAG>>

\* read names are numbers from 1; the empty name
NoName == 0

\* DuplicateMateInfo(): memset to 0; bestReadOffset[0..3] are elements 1..4,
\* bestReadQuality[0..1] elements 1..2
DuplicateMateInfo ==
    [firstRunOffset |-> 0, firstRunEndOffset |-> 0, bestReadOffset |-> <<0, 0, 0, 0>>,
     bestReadQuality |-> <<0, 0>>, bestReadId |-> NoName]

\* the writer buffer the record at fileOffset is in: each buffer takes
\* recordsPerBatch records
BatchOfRecord(fileOffset) == (fileOffset - 1) \div recordsPerBatch

\* BAMFilter::getRead while the filter is at lastOffset: the current buffer and
\* the buffers getBatch(-2) .. getBatch(1 - count) still has; a fileOffset it
\* finds, 0 for NULL
filterGetRead(fileOffset, lastOffset) ==
    IF BatchOfRecord(lastOffset) - BatchOfRecord(fileOffset) <= WriterBufferCount - 2
    THEN fileOffset
    ELSE 0

\* BAMFilter::tryFindRead: the fileOffset of the read found, 0 for NULL
RECURSIVE tryFindRead(_, _, _, _)
tryFindRead(file, fileOffset, endOffset, id) ==
    IF fileOffset < endOffset
    THEN IF readIdsMatch(file[fileOffset].read_name, id) THEN fileOffset
         ELSE tryFindRead(file, fileOffset + 1, endOffset, id)
    ELSE 0

\* tryFindRead reads the name of the record getRead(offset) gave it without a
\* look at the pointer
tryFindReadOfNull(fileOffset, endOffset, lastOffset) ==
    fileOffset < endOffset /\ filterGetRead(fileOffset, lastOffset) = 0

\* onRead, first loop: partition by duplicate key, find the best read in each
\* partition.  Where tryFindRead reads a name through NULL, the bytes it gets
\* either match the id, and it returns NULL with the offset it was given, or
\* the program is stopped in the loop (stopped is then TRUE)
RECURSIVE findBest(_, _, _, _, _, _)
findBest(file, map, fileOffset, lastOffset, previousOffset, nullMatches) ==
    IF fileOffset = lastOffset THEN [mates |-> map, stopped |-> FALSE]
    ELSE LET record == file[fileOffset]
             key == DuplicateReadKey(record)
             isSecond == "SAM_LAST_SEGMENT" \in record.FLAG
         IN  IF key \notin DOMAIN map /\ isSecond
             THEN \* mate wasn't in a run, so it can't be a duplicate pair
                  findBest(file, map, fileOffset + 1, lastOffset, previousOffset,
                           nullMatches)
             ELSE
               LET info == IF key \in DOMAIN map THEN map[key]
                           ELSE [DuplicateMateInfo EXCEPT !.firstRunOffset = fileOffset,
                                                          !.firstRunEndOffset = lastOffset]
                   adjacent == /\ "SAM_UNMAPPED" \in record.FLAG
                               /\ previousOffset # 0
                               /\ readIdsMatch(record.read_name,
                                               file[previousOffset].read_name)
                   readsNull == /\ isSecond
                                /\ ~adjacent
                                /\ tryFindReadOfNull(info.firstRunOffset,
                                                     info.firstRunEndOffset, lastOffset)
                   mateOffset ==
                       IF ~isSecond THEN 0
                       ELSE IF adjacent THEN previousOffset
                       ELSE IF readsNull THEN info.firstRunOffset
                       ELSE tryFindRead(file, info.firstRunOffset,
                                        info.firstRunEndOffset, info.bestReadId)
                   totalQuality == getTotalQuality(record)
                                   + (IF mateOffset # 0 /\ ~readsNull
                                      THEN getTotalQuality(file[mateOffset])
                                      ELSE 0)
                   which == IF isSecond THEN 2 ELSE 1
                   better == IF totalQuality > info.bestReadQuality[which]
                             THEN [info EXCEPT
                                     !.bestReadQuality[which] = totalQuality,
                                     !.bestReadOffset[which] = fileOffset,
                                     !.bestReadOffset[3] = IF isSecond THEN mateOffset ELSE @,
                                     !.bestReadId = record.read_name]
                             ELSE info
                   old == IF isSecond /\ readIdsMatch(better.bestReadId, record.read_name)
                          THEN [better EXCEPT !.bestReadOffset[4] = fileOffset]
                          ELSE better
               IN  IF readsNull /\ ~nullMatches
                   THEN [mates |-> map, stopped |-> TRUE]
                   ELSE findBest(file, [k \in DOMAIN map \cup {key} |->
                                           IF k = key THEN old ELSE map[k]],
                                 fileOffset + 1, lastOffset, fileOffset, nullMatches)

\* static const int index[2][2] = {{0, 3}, {2, 1}}
bestReadIndex(pass, isSecond) ==
    IF ~pass THEN (IF isSecond THEN 4 ELSE 1) ELSE (IF isSecond THEN 2 ELSE 3)

\* onRead, second loop: go back and adjust flags; failed takes the infos whose
\* first mate list getRead no longer finds
RECURSIVE adjustFlags(_, _, _, _, _)
adjustFlags(file, map, fileOffset, lastOffset, failed) ==
    IF fileOffset = lastOffset THEN [file |-> file, failedBackpatch |-> failed]
    ELSE LET record == file[fileOffset]
             key == DuplicateReadKey(record)
         IN  IF key \notin DOMAIN map
             THEN adjustFlags(file, map, fileOffset + 1, lastOffset, failed)
             ELSE
               LET info == map[key]
                   pass == info.bestReadQuality[2] # 0
                   isSecond == "SAM_LAST_SEGMENT" \in record.FLAG
                   oldBest == filterGetRead(info.bestReadOffset[1], lastOffset)
                   newBest == filterGetRead(info.bestReadOffset[3], lastOffset)
               IN  IF fileOffset # info.bestReadOffset[bestReadIndex(pass, isSecond)]
                   THEN adjustFlags(
                            IF "SAM_UNMAPPED" \notin record.FLAG
                            THEN [file EXCEPT ![fileOffset].FLAG = @ \cup {"SAM_DUPLICATE"}]
                            ELSE file,
                            map, fileOffset + 1, lastOffset, failed)
                   ELSE IF /\ pass
                           /\ info.bestReadOffset[3] # 0
                           /\ info.bestReadOffset[1] # 0
                           /\ info.bestReadOffset[3] # info.bestReadOffset[1]
                   THEN \* backpatch the reads of the first mate list if they
                        \* are still in memory
                        IF oldBest # 0 /\ newBest # 0
                        THEN adjustFlags(
                                 [[file EXCEPT ![oldBest].FLAG = @ \ {"SAM_DUPLICATE"}]
                                        EXCEPT ![newBest].FLAG = @ \cup {"SAM_DUPLICATE"}],
                                 map, fileOffset + 1, lastOffset, failed)
                        ELSE adjustFlags(file, map, fileOffset + 1, lastOffset,
                                         Append(failed, info))
                   ELSE adjustFlags(file, map, fileOffset + 1, lastOffset, failed)

\* onRead, lines 972-985: fix up the backpatches that failed.  FLAG |=
\* ~SAM_DUPLICATE sets every flag but SAM_DUPLICATE
RECURSIVE fixupFailed(_, _, _, _)
fixupFailed(file, failed, i, lastOffset) ==
    IF i > Len(failed) THEN file
    ELSE LET trueBestSecond == filterGetRead(failed[i].bestReadOffset[2], lastOffset)
             firstBestSecond == filterGetRead(failed[i].bestReadOffset[4], lastOffset)
         IN  fixupFailed(
                 IF trueBestSecond # 0 /\ firstBestSecond # 0
                 THEN [[file EXCEPT ![trueBestSecond].FLAG = @ \ {"SAM_DUPLICATE"}]
                             EXCEPT ![firstBestSecond].FLAG =
                                        @ \cup (SAMFlags \ {"SAM_DUPLICATE"})]
                 ELSE file,
                 failed, i + 1, lastOffset)

\* onRead, last loop: clean up
RECURSIVE cleanUp(_, _, _, _)
cleanUp(file, map, fileOffset, lastOffset) ==
    IF fileOffset = lastOffset THEN map
    ELSE cleanUp(file,
                 IF "SAM_LAST_SEGMENT" \in file[fileOffset].FLAG
                 THEN [k \in DOMAIN map \ {DuplicateReadKey(file[fileOffset])} |-> map[k]]
                 ELSE map,
                 fileOffset + 1, lastOffset)

UnchangedByDupMark == UNCHANGED <<qvars, mvars, ovars, wvars, avars, fvars, gvars, bvars, hvars, svars, rvars, tvars, kvars, ivars, zvars, xvars>>

\* BAMDupMarkFilter::onRead, called by onNextBatch with the next record.  The
\* loops over a run start at getRead(runOffset), read and write its FLAG, and
\* go on from it with getNextRead: with the start of the run in no buffer any
\* more they work on NULL and never come to lastBam, so the program stops there
onReadWith(nullMatches) ==
    /\ dpc = "marking"
    /\ nextToRead <= Len(records)
    /\ LET lastOffset == nextToRead
           lastBam == records[lastOffset]
           location == lastBam.location
           nextLocation == lastBam.nextLocation
           logicalLocation == IF location # UINT32_MAX THEN location ELSE nextLocation
           found == findBest(records, mates, runOffset, lastOffset, 0, nullMatches)
           adjusted == adjustFlags(records, found.mates, runOffset, lastOffset, <<>>)
           stopped == filterGetRead(runOffset, lastOffset) = 0 \/ found.stopped
       IN  IF logicalLocation = UINT32_MAX
           THEN UNCHANGED <<records, mates, runOffset, runLocation, runCount, dpc>>
           ELSE IF logicalLocation = runLocation
           THEN /\ runCount' = IF location # UINT32_MAX THEN runCount + 1 ELSE runCount
                /\ UNCHANGED <<records, mates, runOffset, runLocation, dpc>>
           ELSE IF runCount > 1 /\ stopped
           THEN /\ dpc' = "stopped"
                /\ UNCHANGED <<records, mates, runOffset, runLocation, runCount>>
           ELSE /\ IF runCount > 1
                   THEN /\ records' = fixupFailed(adjusted.file, adjusted.failedBackpatch,
                                                  1, lastOffset)
                        /\ mates' = cleanUp(records, found.mates, runOffset, lastOffset)
                   ELSE UNCHANGED <<records, mates>>
                /\ runLocation' = logicalLocation
                /\ runOffset' = lastOffset
                /\ runCount' = 1
                /\ UNCHANGED dpc
    /\ nextToRead' = nextToRead + 1
    /\ UNCHANGED recordsPerBatch
    /\ UnchangedByDupMark

onRead == \E nullMatches \in BOOLEAN : onReadWith(nullMatches)

\* onNextBatch has passed every record of the batch
onNextBatchReturns ==
    /\ dpc = "marking"
    /\ nextToRead > Len(records)
    /\ dpc' = "done"
    /\ UNCHANGED <<records, nextToRead, mates, runOffset, runLocation, runCount,
                   recordsPerBatch>>
    /\ UnchangedByDupMark

DupMarkNext == onRead \/ onNextBatchReturns

(***************************************************************************)
(* DataWriterSupplier::compose (DataWriter.cpp): a ComposeFilterSupplier   *)
(* over two filter suppliers and the ComposeFilter it hands out.  The two  *)
(* filters are any filters: each has a type and returns some size from     *)
(* onNextBatch.  calls is the log of the calls a and b receive.            *)
(***************************************************************************)
\* enum FilterType (DataWriter.h), in the order of the enumeration
FilterRank(type) ==
    CASE type = "Read" -> 0 [] type = "Modify" -> 1 [] type = "Copy" -> 2
      [] type = "Transform" -> 3

\* std::max(i_a->filterType, i_b->filterType)
maxFilterType(a, b) == IF FilterRank(a) < FilterRank(b) THEN b ELSE a

\* the types of the filters a supplier composes
ComposableTypes == FilterTypes \ {"None"}
\* the sizes a batch or an advance can have
Sizes == 0..MaxBytes

Call(filter, op, position, bytes) ==
    [filter |-> filter, op |-> op, offset |-> position, bytes |-> bytes]

UnchangedByCompose == UNCHANGED <<qvars, mvars, ovars, wvars, avars, dvars, gvars, bvars, hvars, svars, rvars, tvars, kvars, ivars, zvars, xvars>>

\* DataWriterSupplier::compose(a, b): new ComposeFilterSupplier(a, b)
compose ==
    /\ fpc = "suppliers"
    /\ composedType' = maxFilterType(typeA, typeB)
    /\ fpc' = "composed"
    /\ UNCHANGED <<typeA, typeB, resultOfA, resultOfB, calls, composedResult>>
    /\ UnchangedByCompose

\* ComposeFilterSupplier::getFilter: new ComposeFilter(a->getFilter(), b->getFilter());
\* the filters a and b hand out are any two filters
getFilter ==
    /\ fpc = "composed"
    /\ \E ta \in ComposableTypes, tb \in ComposableTypes :
          /\ typeA' = ta
          /\ typeB' = tb
          /\ composedType' = maxFilterType(ta, tb)
    /\ resultOfA' \in [Sizes -> Sizes]
    /\ resultOfB' \in [Sizes -> Sizes]
    /\ fpc' = "filter"
    /\ UNCHANGED <<calls, composedResult>>
    /\ UnchangedByCompose

\* ComposeFilter::onAdvance: the calls a and b receive
ComposeFilterOnAdvance(batchOffset, bytes) ==
    <<Call("a", "onAdvance", batchOffset, bytes), Call("b", "onAdvance", batchOffset, bytes)>>

onAdvance ==
    /\ fpc = "filter"
    /\ Len(calls) < 2 * MaxFilterCalls
    /\ \E batchOffset \in Sizes, bytes \in Sizes :
          calls' = calls \o ComposeFilterOnAdvance(batchOffset, bytes)
    /\ composedResult' = Unset
    /\ UNCHANGED <<typeA, typeB, composedType, resultOfA, resultOfB, fpc>>
    /\ UnchangedByCompose

\* a filter that gives b the size of the batch as it was before a
ComposeFilterOnNextBatchPastA(fileOffset, bytes) ==
    LET sa == resultOfA[bytes]
        sb == resultOfB[bytes]
    IN  [calls |-> <<Call("a", "onNextBatch", fileOffset, bytes),
                     Call("b", "onNextBatch", fileOffset, bytes)>>,
         returns |-> sb]

\* ComposeFilter::onNextBatch: the calls a and b receive, and the result
ComposeFilterOnNextBatch(fileOffset, bytes) ==
    LET sa == resultOfA[bytes]
        sb == resultOfB[sa]
    IN  [calls |-> <<Call("a", "onNextBatch", fileOffset, bytes),
                     Call("b", "onNextBatch", fileOffset, sa)>>,
         returns |-> sb]

onNextBatch ==
    /\ fpc = "filter"
    /\ Len(calls) < 2 * MaxFilterCalls
    /\ \E fileOffset \in Sizes, bytes \in Sizes :
          LET made == ComposeFilterOnNextBatch(fileOffset, bytes)
          IN  /\ calls' = calls \o made.calls
              /\ composedResult' = made.returns
    /\ UNCHANGED <<typeA, typeB, composedType, resultOfA, resultOfB, fpc>>
    /\ UnchangedByCompose

\* ComposeFilterSupplier::onClose: a's onClose, then b's
onClose ==
    /\ fpc = "composed"
    /\ calls' = calls \o <<Call("a", "onClose", 0, 0), Call("b", "onClose", 0, 0)>>
    /\ fpc' = "closed"
    /\ UNCHANGED <<typeA, typeB, composedType, resultOfA, resultOfB, composedResult>>
    /\ UnchangedByCompose

ComposeNext == compose \/ getFilter \/ onAdvance \/ onNextBatch \/ onClose

(***************************************************************************)
(* GzipWriterFilterSupplier: the translation of logical offsets into BAM   *)
(* virtual offsets.  _uint64 is scaled down to WordBits bits, with the     *)
(* block start in the upper PhysicalBits and the offset within the block  *)
(* in the lower DeltaBits, as 48 and 16 are of 64.                         *)
(***************************************************************************)
RECURSIVE Pow2(_)
Pow2(n) == IF n = 0 THEN 1 ELSE 2 * Pow2(n - 1)

\* x << n in a _uint64
ShiftLeft(x, n) == (x * Pow2(n)) % Pow2(WordBits)

\* a | b, bit by bit
RECURSIVE BitOr(_, _)
BitOr(a, b) ==
    IF a = 0 THEN b
    ELSE IF b = 0 THEN a
    ELSE (IF a % 2 = 1 \/ b % 2 = 1 THEN 1 ELSE 0) + 2 * BitOr(a \div 2, b \div 2)

\* GzipWriterFilterSupplier::translate: the last block that starts at or before
\* logical, and the distance of logical from its start; no block, no translation
Translatable(table, logical) == \E i \in 1..Len(table) : table[i][1] <= logical
translate(table, logical) ==
    LET i == CHOOSE k \in 1..Len(table) :
                 /\ table[k][1] <= logical
                 /\ \A j \in 1..Len(table) : table[j][1] <= logical => j <= k
    IN  [physical |-> table[i][2], delta |-> logical - table[i][1]]

\* toVirtualOffset without the test of the two ranges
toVirtualOffsetUntested(table, logical) ==
    IF logical # UINT64_MAX /\ Translatable(table, logical)
    THEN LET t == translate(table, logical)
         IN  BitOr(ShiftLeft(t.physical, DeltaBits), t.delta)
    ELSE 0

\* GzipWriterFilterSupplier::toVirtualOffset
toVirtualOffset(table, logical) ==
    IF logical # UINT64_MAX /\ Translatable(table, logical)
    THEN LET t == translate(table, logical)
         IN  IF t.delta < Pow2(DeltaBits) /\ t.physical < Pow2(PhysicalBits)
             THEN BitOr(ShiftLeft(t.physical, DeltaBits), t.delta)
             ELSE 0
    ELSE 0

\* the logical offsets asked for, and the block starts in the file
LogicalOffsets == 0..MaxLogical
PhysicalStarts == {0, 1, Pow2(PhysicalBits) - 1, Pow2(PhysicalBits), Pow2(PhysicalBits) + 1}

UnchangedByGzip == UNCHANGED <<qvars, mvars, ovars, wvars, avars, dvars, fvars, bvars, hvars, svars, rvars, tvars, kvars, ivars, zvars, xvars>>

\* GzipWriterFilterSupplier::addTranslation, called for each block written: blocks
\* follow each other in the logical and in the physical file
addTranslation ==
    /\ gpc = "writing"
    /\ Len(translation) < MaxBlocks
    /\ \E logical \in LogicalOffsets, physical \in PhysicalStarts :
          /\ translation # <<>> =>
                /\ translation[Len(translation)][1] < logical
                /\ translation[Len(translation)][2] < physical
          /\ translation' = Append(translation, <<logical, physical>>)
    /\ UNCHANGED <<logicalAsked, virtualOffset, gpc>>
    /\ UnchangedByGzip

\* a caller asks for the virtual offset of a logical offset
AskVirtualOffset ==
    /\ gpc = "writing"
    /\ \E logical \in LogicalOffsets \cup {UINT64_MAX} :
          /\ logicalAsked' = logical
          /\ virtualOffset' = toVirtualOffset(translation, logical)
    /\ gpc' = "asked"
    /\ UNCHANGED translation
    /\ UnchangedByGzip

GzipNext == addTranslation \/ AskVirtualOffset

(***************************************************************************)
(* BAMAlignment's packed bases and quality bytes (Bam.cpp).  A character   *)
(* of a base string is a one-letter string; a quality character is its     *)
(* character code, a stored byte a number 0..255.                          *)
(***************************************************************************)
\* BAMAlignment::CodeToSeq = "=ACMGRSVTWYHKDBN"; CodeToSeq[n] is element n + 1
CodeToSeq == <<"=", "A", "C", "M", "G", "R", "S", "V", "T", "W", "Y", "H", "K", "D", "B", "N">>

\* BAMAlignment::_init: memset(SeqToCode, 0, 256), then SeqToCode[CodeToSeq[i]] = i
\* for i = 1..15
SeqToCode(c) ==
    IF \E i \in 1..15 : CodeToSeq[i + 1] = c
    THEN CHOOSE i \in 1..15 : CodeToSeq[i + 1] = c
    ELSE 0

\* a _uint8
Byte(x) == x % 256

\* BAMAlignment::encodeSeq with each base in the low nibble of a byte of its own
encodeSeqUnpacked(text, length) == [k \in 1..length |-> SeqToCode(text[k])]

\* BAMAlignment::encodeSeq: two bases a byte, the first in the high nibble; the
\* last byte of an odd length has a low nibble of 0
encodeSeq(text, length) ==
    [k \in 1..((length + 1) \div 2) |->
        IF 2 * k <= length
        THEN BitOr(Byte(SeqToCode(text[2 * k - 1]) * 16), SeqToCode(text[2 * k]))
        ELSE Byte(SeqToCode(text[length]) * 16)]

\* BAMAlignment::decodeSeq: base i (from 0) is in byte i / 2, the high nibble for
\* an even i and the low one for an odd i
decodeSeq(packed, nBases) ==
    [k \in 1..nBases |->
        LET i == k - 1
            n == IF i % 2 = 1 THEN packed[i \div 2 + 1] % 16 ELSE packed[i \div 2 + 1] \div 16
        IN  CodeToSeq[n + 1]]

\* BAMFormat::writeRead: quality[i] -= '!', in a char
storeQual(chars) == [k \in 1..Len(chars) |-> Byte(chars[k] + 256 - ExclamationMark)]

\* BAMAlignment::decodeQual: char q = quality[i]; a char above 127 is negative
decodeQual(bytes) ==
    [k \in 1..Len(bytes) |->
        LET q == IF bytes[k] >= 128 THEN bytes[k] - 256 ELSE bytes[k]
        IN  IF q < 0 \/ q >= 64 THEN ExclamationMark ELSE q + ExclamationMark]

UnchangedByBam == UNCHANGED <<qvars, mvars, ovars, wvars, avars, dvars, fvars, gvars, hvars, svars, rvars, tvars, kvars, ivars, zvars, xvars>>

\* encodeSeq is called with the text at hand
encodeSeqCall ==
    /\ bpc \in {"text", "decoded"}
    /\ encoded' = encodeSeq(ascii, l_seq)
    /\ ascii' = <<>>
    /\ bpc' = IF bpc = "text" THEN "encoded" ELSE "nibblesBack"
    /\ UNCHANGED <<original, l_seq, storedQual, o_qual>>
    /\ UnchangedByBam

\* decodeSeq is called with the packed bases at hand
decodeSeqCall ==
    /\ bpc \in {"nibbles", "encoded"}
    /\ ascii' = decodeSeq(encoded, l_seq)
    /\ encoded' = <<>>
    /\ bpc' = IF bpc = "nibbles" THEN "decoded" ELSE "textBack"
    /\ UNCHANGED <<original, l_seq, storedQual, o_qual>>
    /\ UnchangedByBam

BamSeqNext == encodeSeqCall \/ decodeSeqCall

\* writeRead stores the quality string of the read
writeReadQuality ==
    /\ bpc = "quality"
    /\ storedQual' = storeQual(original)
    /\ bpc' = "stored"
    /\ UNCHANGED <<original, ascii, encoded, l_seq, o_qual>>
    /\ UnchangedByBam

\* decodeQual is called with the stored bytes
decodeQualCall ==
    /\ bpc = "stored"
    /\ o_qual' = decodeQual(storedQual)
    /\ bpc' = "qualBack"
    /\ UNCHANGED <<original, ascii, encoded, l_seq, storedQual>>
    /\ UnchangedByBam

BamQualNext == writeReadQuality \/ decodeQualCall

(***************************************************************************)
(* One HashTableHitSet on its own: the lookups of phase 1 are recorded,    *)
(* and a caller makes any of the three calls align makes, in any order.    *)
(***************************************************************************)
\* the locations a caller may ask for
AskedLocations == 0..(MaxLocation + maxSpacing)

NoAnswer == [anyFound |-> FALSE, genomeLocation |-> 0, seedOffset |-> Unset]

UnchangedByHitSet == UNCHANGED <<qvars, mvars, ovars, wvars, avars, dvars, fvars, gvars, bvars, svars, rvars, tvars, kvars, ivars, zvars, xvars>>

\* the caller's variables and the set after a call that returned out
Returned(out, call, asked) ==
    /\ hitSetBefore' = hitSet
    /\ hitSet' = out.set
    /\ maxAsked' = asked
    /\ answer' = [anyFound |-> out.anyFound, genomeLocation |-> out.genomeLocation,
                  seedOffset |-> IF call = "lessOrEqual" THEN out.seedOffset ELSE Unset]
    /\ hpc' = call
    /\ hitSetCalls' = hitSetCalls + 1
    /\ UnchangedByHitSet

CallGetFirstHit ==
    /\ hpc = "recorded"
    /\ Returned(getFirstHit(hitSet), "first", 0)

CallGetNextLowerHit ==
    /\ hpc \in {"first", "lower", "lessOrEqual"}
    /\ hitSetCalls < MaxHitSetCalls
    /\ \E stale \in StaleLocations :
          Returned(getNextLowerHit(hitSet, answer.genomeLocation, stale), "lower", 0)

CallGetNextHitLessThanOrEqualTo ==
    /\ hpc \in {"recorded", "first", "lower", "lessOrEqual"}
    /\ hitSetCalls < MaxHitSetCalls
    /\ \E asked \in AskedLocations :
          Returned(getNextHitLessThanOrEqualTo(hitSet, asked, answer.genomeLocation),
                   "lessOrEqual", asked)

HitSetNext == CallGetFirstHit \/ CallGetNextLowerHit \/ CallGetNextHitLessThanOrEqualTo

(***************************************************************************)
(* IntersectingPairedEndAligner::align, phase 1: the hash table lookups    *)
(* of the seeds of both reads (lines 215-285).  One turn of the while loop *)
(* is one action.  The index is not part of the model: lookupSeed returns  *)
(* any hit array of IndexHits for each direction.                          *)
(***************************************************************************)
\* Direction: the read as given, or its reverse complement
FORWARD == "FORWARD"
RC == "RC"
Directions == {FORWARD, RC}

\* the hits a lookup returns for one direction, genome offsets in descending
\* order: the seed occurs at the n highest of MaxSeedHits locations
IndexHits == {[k \in 1..n |-> MaxSeedHits - k] : n \in 0..MaxSeedHits}

UnchangedBySeeds == UNCHANGED <<qvars, mvars, ovars, wvars, avars, dvars, fvars, gvars, bvars, hvars, rvars, tvars, kvars, ivars, zvars, xvars>>

UnchangedSeedInput == UNCHANGED <<readLen, seedsWithN>>

\* line 218: nPossibleSeeds = readLen[whichRead] - seedLen + 1
nPossibleSeeds(r) == readLen[r] - seedLen + 1

\* the wrapped start of the seeds: each wrap shifts the start by one
GetWrappedNextSeedToTest(len, wraps) == wraps

\* lines 234-239: go past the seeds already used
RECURSIVE SkipUsed(_, _)
SkipUsed(seed, limit) ==
    IF seed < limit /\ seed \in seedUsed THEN SkipUsed(seed + 1, limit) ELSE seed

\* the guard of the while loop of line 221
MoreSeeds ==
    /\ whichRead < NUM_READS_PER_PAIR
    /\ countOfHashTableLookups[whichRead] < nPossibleSeeds(whichRead)
    /\ countOfHashTableLookups[whichRead] < maxSeeds

\* lines 222-231: the seed has run off the read
Wrapped == nextSeedToTest >= nPossibleSeeds(whichRead)
NewWrapCount == IF Wrapped THEN wrapCount + 1 ELSE wrapCount
WrappedOut == Wrapped /\ NewWrapCount >= seedLen

\* the seed the turn comes to after wrapping and skipping the used ones
SeedToTest ==
    SkipUsed(IF Wrapped THEN GetWrappedNextSeedToTest(seedLen, NewWrapCount)
             ELSE nextSeedToTest,
             nPossibleSeeds(whichRead))

\* lines 215-219: the for loop goes to the next read
StartNextRead ==
    /\ whichRead' = whichRead + 1
    /\ nextSeedToTest' = 0
    /\ wrapCount' = 0
    /\ seedUsed' = {}
    /\ spc' = IF whichRead + 1 < NUM_READS_PER_PAIR THEN "seeds" ELSE "looked up"

\* the while loop is over for this read: its guard fails, or the break of line 228
EndOfRead ==
    /\ spc = "seeds"
    /\ ~MoreSeeds \/ WrappedOut
    /\ StartNextRead
    /\ UNCHANGED <<countOfHashTableLookups, popularSeedsSkipped, totalHits,
                   hashTableHitSets, seedHits>>
    /\ UnchangedSeedInput
    /\ UnchangedBySeeds

\* lines 241-246: used seeds have pushed the turn past the end of the read
PastEndOfRead ==
    /\ spc = "seeds"
    /\ MoreSeeds
    /\ ~WrappedOut
    /\ SeedToTest >= nPossibleSeeds(whichRead)
    /\ nextSeedToTest' = SeedToTest
    /\ wrapCount' = NewWrapCount
    /\ UNCHANGED <<whichRead, seedUsed, spc, countOfHashTableLookups, popularSeedsSkipped,
                   totalHits, hashTableHitSets, seedHits>>
    /\ UnchangedSeedInput
    /\ UnchangedBySeeds

\* lines 248-256: the seed has Ns in it
SkipSeedWithNs ==
    /\ spc = "seeds"
    /\ MoreSeeds
    /\ ~WrappedOut
    /\ SeedToTest < nPossibleSeeds(whichRead)
    /\ SeedToTest \in seedsWithN[whichRead]
    /\ seedUsed' = seedUsed \cup {SeedToTest}
    /\ nextSeedToTest' = SeedToTest + 1
    /\ wrapCount' = NewWrapCount
    /\ UNCHANGED <<whichRead, spc, countOfHashTableLookups, popularSeedsSkipped,
                   totalHits, hashTableHitSets, seedHits>>
    /\ UnchangedSeedInput
    /\ UnchangedBySeeds

\* lines 269-274: the offset of the seed in the read of direction dir
seedOffsetIn(dir, seed) ==
    IF dir = FORWARD THEN seed ELSE readLen[whichRead] - seedLen - seed

\* line 275: if (nHits[dir] < maxBigHits)
belowMaxBigHits(n) == n < maxBigHits

\* HashTableHitSet::recordLookup on a set's lookups: empty lookups add nothing
recordLookupIn(lookups, seedOffset, found) ==
    IF Len(found) = 0 THEN lookups
    ELSE Append(lookups, recordLookup(seedOffset, found))

\* lines 258-283: look the seed up and record its hits for each direction
LookupSeed ==
    /\ spc = "seeds"
    /\ MoreSeeds
    /\ ~WrappedOut
    /\ SeedToTest < nPossibleSeeds(whichRead)
    /\ SeedToTest \notin seedsWithN[whichRead]
    /\ \E found \in [Directions -> IndexHits] :
        /\ seedHits' = found
        /\ totalHits' = [totalHits EXCEPT ![whichRead] =
               [dir \in Directions |->
                   IF belowMaxBigHits(Len(found[dir])) THEN @[dir] + Len(found[dir])
                   ELSE @[dir]]]
        /\ hashTableHitSets' = [hashTableHitSets EXCEPT ![whichRead] =
               [dir \in Directions |->
                   IF belowMaxBigHits(Len(found[dir]))
                   THEN recordLookupIn(@[dir], seedOffsetIn(dir, SeedToTest), found[dir])
                   ELSE @[dir]]]
        /\ popularSeedsSkipped' = [popularSeedsSkipped EXCEPT ![whichRead] =
               @ + Cardinality({dir \in Directions : ~belowMaxBigHits(Len(found[dir]))})]
    /\ countOfHashTableLookups' = [countOfHashTableLookups EXCEPT ![whichRead] = @ + 1]
    /\ seedUsed' = seedUsed \cup {SeedToTest}
    /\ nextSeedToTest' = SeedToTest + seedLen
    /\ wrapCount' = NewWrapCount
    /\ UNCHANGED <<whichRead, spc>>
    /\ UnchangedSeedInput
    /\ UnchangedBySeeds

SeedLookupNext ==
    \/ EndOfRead
    \/ PastEndOfRead
    \/ SkipSeedWithNs
    \/ LookupSeed

(***************************************************************************)
(* SAMReader on a byte range (SAM.cpp): MemMapSAMReader, and               *)
(* WindowsOverlappedSAMReader where _MSC_VER is defined.  The file is a    *)
(* header of headerSize bytes that ends with a newline, and lines of       *)
(* lineLengths bytes, newline included; positions are offsets in the file. *)
(* The ranges of a file are read one after the other.  The overlapped      *)
(* reader's buffers are taken to hold the range and its overflow.          *)
(***************************************************************************)
UnchangedBySAMReader == UNCHANGED <<qvars, mvars, ovars, wvars, avars, dvars, fvars, gvars, bvars, hvars, svars, tvars, kvars, ivars, zvars, xvars>>

UnchangedSAMFile == UNCHANGED <<lineLengths, pairedInput, headerSize, rangeStarts, readerKind>>

Lines == 1..Len(lineLengths)

\* the offset of the first byte of line i; of the end of the file for i past the last
RECURSIVE lineStart(_)
lineStart(i) == IF i = 1 THEN headerSize ELSE lineStart(i - 1) + lineLengths[i - 1]

samFileSize == lineStart(Len(lineLengths) + 1)

\* fileData[q] == '\n'
IsNewline(q) == q = headerSize - 1 \/ \E i \in Lines : q = lineStart(i + 1) - 1

\* the line that begins at q, or 0
LineAt(q) == IF \E i \in Lines : lineStart(i) = q
             THEN CHOOSE i \in Lines : lineStart(i) = q ELSE 0

\* the start of the first line that begins after q
NextLineStart(q) ==
    IF \E i \in Lines : lineStart(i) > q
    THEN lineStart(CHOOSE i \in Lines : lineStart(i) > q /\ \A j \in Lines : lineStart(j) > q => i <= j)
    ELSE samFileSize

\* the FLAG field of line i: the lines of paired input are first and last segments in turn
flagOf(i) ==
    IF ~pairedInput THEN {}
    ELSE IF i % 2 = 1 THEN {"SAM_MULTI_SEGMENT", "SAM_FIRST_SEGMENT"}
    ELSE {"SAM_MULTI_SEGMENT", "SAM_LAST_SEGMENT"}

\* the range's arguments of reinit
startingOffset == rangeStarts[rangeIndex]
amountToProcess ==
    (IF rangeIndex < Len(rangeStarts) THEN rangeStarts[rangeIndex + 1] ELSE samFileSize)
        - startingOffset

\* the first newline at or after q and before limit, or limit
RECURSIVE firstNewline(_, _)
firstNewline(q, limit) ==
    IF q < limit /\ ~IsNewline(q) THEN firstNewline(q + 1, limit) ELSE q

\* lines 1592-1615: where MemMapSAMReader::reinit starts to parse
MemMapFirstLine ==
    LET misalignment == startingOffset % PageSize
        alignedOffset == startingOffset - misalignment
        first == Max(misalignment, headerSize - 1 - startingOffset)
    IN  firstNewline(alignedOffset + first, startingOffset + amountToProcess) + 1

\* lines 1248-1265: readOffset points at the byte before the range
OverlappedFirstLine ==
    firstNewline(Max(headerSize, startingOffset) - 1, samFileSize) + 1

\* "If the first read has SAM_MULTI_SEGMENT and not SAM_FIRST_SEGMENT set ... skip it"
SkipsFirstLine(flag) == "SAM_MULTI_SEGMENT" \in flag /\ "SAM_FIRST_SEGMENT" \notin flag

\* reinit(startingOffset, amountToProcess) of the build's reader.  getReadFromLine
\* exits when no whole line is left; what it makes of the middle of a line
\* depends on the bytes there
SAMReaderReinit ==
    /\ samPc = "reinit"
    /\ LET first == IF readerKind = "MemMap" THEN MemMapFirstLine ELSE OverlappedFirstLine
       IN  /\ endPos' = IF readerKind = "MemMap" THEN startingOffset + amountToProcess
                        ELSE Min(samFileSize, startingOffset + amountToProcess)
           /\ IF first >= samFileSize
              THEN /\ samPc' = "failed"
                   /\ pos' = first
              ELSE IF LineAt(first) = 0
              THEN /\ samPc' \in {"failed", "reading"}
                   /\ pos' \in {first, NextLineStart(first)}
              ELSE /\ samPc' = "reading"
                   /\ pos' = IF SkipsFirstLine(flagOf(LineAt(first)))
                             THEN first + lineLengths[LineAt(first)] ELSE first
    /\ UNCHANGED <<rangeIndex, returnedCount>>
    /\ UnchangedSAMFile
    /\ UnchangedBySAMReader

\* getNextRead returns false: MemMapSAMReader at line 1655, whatever
\* ignoreEndOfRange; WindowsOverlappedSAMReader at lines 1316-1328
PastEndOfRange(q, ignoreEndOfRange) ==
    IF readerKind = "MemMap" THEN q >= endPos
    ELSE q >= samFileSize \/ (q > endPos /\ ~ignoreEndOfRange)

\* the reader of the range has returned false: the range is over
EndOfRange ==
    /\ rangeIndex' = rangeIndex + 1
    /\ samPc' = IF rangeIndex < Len(rangeStarts) THEN "reinit" ELSE "done"

\* SAMReader::getNextRead for single-end input
SAMGetNextRead ==
    /\ samPc = "reading"
    /\ ~pairedInput
    /\ IF PastEndOfRange(pos, FALSE) \/ LineAt(pos) = 0
       THEN /\ EndOfRange
            /\ UNCHANGED <<pos, returnedCount>>
       ELSE /\ returnedCount' = [returnedCount EXCEPT ![LineAt(pos)] = @ + 1]
            /\ pos' = pos + lineLengths[LineAt(pos)]
            /\ UNCHANGED <<rangeIndex, samPc>>
    /\ UNCHANGED endPos
    /\ UnchangedSAMFile
    /\ UnchangedBySAMReader

\* line 897: the flags of a pair
FlagsOfPair(flag0, flag1) ==
    /\ "SAM_MULTI_SEGMENT" \in flag0
    /\ "SAM_MULTI_SEGMENT" \in flag1
    /\ "SAM_FIRST_SEGMENT" \in flag0
    /\ "SAM_LAST_SEGMENT" \in flag1

\* SAMReader::getNextReadPair: the second getNextRead ignores the end of the range
SAMGetNextReadPair ==
    /\ samPc = "reading"
    /\ pairedInput
    /\ LET second == pos + lineLengths[LineAt(pos)]
       IN  IF PastEndOfRange(pos, FALSE) \/ LineAt(pos) = 0
           THEN /\ EndOfRange
                /\ UNCHANGED <<pos, returnedCount>>
           ELSE IF PastEndOfRange(second, TRUE) \/ LineAt(second) = 0
           THEN /\ EndOfRange
                /\ pos' = second
                /\ UNCHANGED returnedCount
           ELSE IF ~FlagsOfPair(flagOf(LineAt(pos)), flagOf(LineAt(second)))
           THEN /\ EndOfRange
                /\ pos' = second + lineLengths[LineAt(second)]
                /\ UNCHANGED returnedCount
           ELSE /\ returnedCount' = [returnedCount EXCEPT ![LineAt(pos)] = @ + 1,
                                                          ![LineAt(second)] = @ + 1]
                /\ pos' = second + lineLengths[LineAt(second)]
                /\ UNCHANGED <<rangeIndex, samPc>>
    /\ UNCHANGED endPos
    /\ UnchangedSAMFile
    /\ UnchangedBySAMReader

SAMReaderNext ==
    \/ SAMReaderReinit
    \/ SAMGetNextRead
    \/ SAMGetNextReadPair

(***************************************************************************)
(* SAMWriter::generateSAMText, BAMFormat::writeRead and                    *)
(* SAMReader::getReadFromLine (SAM.cpp, Bam.cpp): the flags, the piece,    *)
(* the position and the template length of a record.  A number written to  *)
(* a SAM line is the sequence of its decimal digits.  The genome's pieces  *)
(* are named PieceNames[i] and begin at genomePieces[i].                   *)
(***************************************************************************)
UnchangedBySAMText == UNCHANGED <<qvars, mvars, ovars, wvars, avars, dvars, fvars, gvars, bvars, hvars, svars, rvars, kvars, ivars, zvars, xvars>>

PieceNames == <<"chr1", "chr2">>

\* Genome::getPieceAtLocation: the index of the last piece that begins at or
\* before the location
getPieceAtLocation(genome, location) ==
    CHOOSE i \in 1..Len(genome) :
        /\ genome[i] <= location
        /\ \A j \in 1..Len(genome) : genome[j] <= location => j <= i

\* Genome::getOffsetOfPiece
getOffsetOfPiece(genome, name) ==
    genome[CHOOSE i \in 1..Len(genome) : PieceNames[i] = name]

\* printf("%u"): the decimal digits of n
RECURSIVE ToDecimal(_)
ToDecimal(n) == IF n < 10 THEN <<n>> ELSE Append(ToDecimal(n \div 10), n % 10)

\* sscanf("%d"): the number the digits stand for
RECURSIVE FromDecimal(_)
FromDecimal(digits) ==
    IF Len(digits) = 0 THEN 0
    ELSE 10 * FromDecimal(SubSeq(digits, 1, Len(digits) - 1)) + digits[Len(digits)]

isOneLocation(status) == status \in {"SingleHit", "CertainHit"}

\* lines 222-240: the bases clipped before and after the read as the line shows it
basesClippedBefore(read, isRC) ==
    IF isRC THEN read.unclippedLength - read.dataLength - read.frontClippedLength
    ELSE read.frontClippedLength
basesClippedAfter(read, isRC) ==
    IF isRC THEN read.frontClippedLength
    ELSE read.unclippedLength - read.dataLength - read.frontClippedLength

\* lines 269-279: the length of the whole paired-end string, signed
templateLength(read, location, isRC, firstInPair, mate, mateLocation, mateIsRC) ==
    LET myStart == Unsigned(location - basesClippedBefore(read, isRC))
        myEnd == Unsigned(location + read.dataLength + basesClippedAfter(read, isRC))
        mateBasesClippedBefore == mate.frontClippedLength
        mateBasesClippedAfter ==
            mate.unclippedLength - mate.dataLength - mateBasesClippedBefore
        mateStart == mateLocation - (IF mateIsRC THEN mateBasesClippedAfter
                                     ELSE mateBasesClippedBefore)
        mateEnd == mateLocation + mate.dataLength
                       + (IF ~mateIsRC THEN mateBasesClippedAfter
                          ELSE mateBasesClippedBefore)
    IN  IF myStart < mateStart THEN mateEnd - myStart ELSE -(myEnd - mateStart)

\* line 252, zero-based
positionInPieceFromZero(genome, location) ==
    Unsigned(location - genome[getPieceAtLocation(genome, location)])

\* line 252: positionInPiece = genomeLocation - piece->beginningOffset + 1
positionInPiece(genome, location) ==
    Unsigned(location - genome[getPieceAtLocation(genome, location)] + 1)

\* SAMWriter::generateSAMText: the fields the line is printed from
generateSAMText(genome, read, status, location, isRC, hasMate, firstInPair, mate, mateStatus, mateLocation, mateIsRC) ==
    LET genomeLocation == IF status = "NotFound" THEN InvalidGenomeLocation ELSE location
        mapped == genomeLocation # InvalidGenomeLocation
        bothAligned == hasMate /\ isOneLocation(status) /\ isOneLocation(mateStatus)
        flags ==
            (IF mapped /\ isRC THEN {"SAM_REVERSE_COMPLEMENT"} ELSE {})
            \cup (IF mapped THEN {} ELSE {"SAM_UNMAPPED"})
            \cup (IF hasMate
                  THEN {"SAM_MULTI_SEGMENT",
                        IF firstInPair THEN "SAM_FIRST_SEGMENT" ELSE "SAM_LAST_SEGMENT"}
                  ELSE {})
            \cup (IF bothAligned THEN {"SAM_ALL_ALIGNED"} ELSE {})
            \cup (IF hasMate /\ mateIsRC THEN {"SAM_NEXT_REVERSED"} ELSE {})
    IN  [FLAG |-> flags,
         RNAME |-> IF mapped THEN PieceNames[getPieceAtLocation(genome, genomeLocation)]
                   ELSE "*",
         POS |-> ToDecimal(IF mapped THEN positionInPiece(genome, genomeLocation) ELSE 0),
         MAPQ |-> IF status = "MultipleHits" /\ ~mapped THEN 1
                  ELSE IF mapped /\ isOneLocation(status) THEN 60 ELSE 0,
         TLEN |-> IF bothAligned
                  THEN templateLength(read, genomeLocation, isRC, firstInPair,
                                      mate, mateLocation, mateIsRC)
                  ELSE 0]

\* getSAMData: the piece index and the one-based position that the BAM writer
\* is handed, as generateSAMText computes them
getSAMData(genome, status, location) ==
    LET genomeLocation == IF status = "NotFound" THEN InvalidGenomeLocation ELSE location
        mapped == genomeLocation # InvalidGenomeLocation
    IN  [pieceIndex |-> IF mapped THEN getPieceAtLocation(genome, genomeLocation) - 1 ELSE -1,
         positionInPiece |-> IF mapped THEN positionInPiece(genome, genomeLocation) ELSE 0]

\* BAMFormat::writeRead, lines 552-564: the record's refID and pos
writeRead(genome, status, location) ==
    LET data == getSAMData(genome, status, location)
    IN  [refID |-> data.pieceIndex, pos |-> data.positionInPiece - 1]

\* SAMReader::getReadFromLine: the genome location and the result of a line;
\* ParseFailed where the reader gives up
ParseFailed ==
    [genomeLocation |-> InvalidGenomeLocation, alignmentResult |-> "exit", isRC |-> FALSE]
getReadFromLine(genome, line) ==
    IF line.RNAME # "*" /\ FromDecimal(line.POS) = 0 THEN ParseFailed
    ELSE [genomeLocation |->
              IF line.RNAME # "*"
              THEN Unsigned(getOffsetOfPiece(genome, line.RNAME) + FromDecimal(line.POS) - 1)
              ELSE InvalidGenomeLocation,
          alignmentResult |-> IF "SAM_UNMAPPED" \in line.FLAG THEN "NotFound"
                              ELSE "SingleHit",
          isRC |-> "SAM_REVERSE_COMPLEMENT" \in line.FLAG]

\* what an aligner reports of a read: a single hit has a location, a read
\* that was not found has none or a stale one
Alignments(maxLocation) ==
    {[status |-> "SingleHit", location |-> l, isRC |-> rc] :
        l \in 0..maxLocation, rc \in BOOLEAN}
    \cup {[status |-> "MultipleHits", location |-> l, isRC |-> rc] :
        l \in (0..maxLocation) \cup {InvalidGenomeLocation}, rc \in BOOLEAN}
    \cup {[status |-> "NotFound", location |-> l, isRC |-> rc] :
        l \in {0, InvalidGenomeLocation}, rc \in BOOLEAN}

NoRead == [dataLength |-> 0, frontClippedLength |-> 0, unclippedLength |-> 0]

\* SimpleSAMWriter::write and writePair, and the BAM records of the same reads
WriteRecords ==
    /\ tpc = "write"
    /\ samLines' =
           IF withMate
           THEN <<generateSAMText(genomePieces, samReads[0], alignments[0].status,
                      alignments[0].location, alignments[0].isRC, TRUE, TRUE,
                      samReads[1], alignments[1].status, alignments[1].location,
                      alignments[1].isRC),
                  generateSAMText(genomePieces, samReads[1], alignments[1].status,
                      alignments[1].location, alignments[1].isRC, TRUE, FALSE,
                      samReads[0], alignments[0].status, alignments[0].location,
                      alignments[0].isRC)>>
           ELSE <<generateSAMText(genomePieces, samReads[0], alignments[0].status,
                      alignments[0].location, alignments[0].isRC, FALSE, FALSE,
                      NoRead, "NotFound", 0, FALSE)>>
    /\ bamRecords' =
           [k \in 1..(IF withMate THEN 2 ELSE 1) |->
               writeRead(genomePieces, alignments[k - 1].status, alignments[k - 1].location)]
    /\ tpc' = "written"
    /\ UNCHANGED <<genomePieces, samReads, alignments, withMate, parsedBack>>
    /\ UnchangedBySAMText

\* a SAMReader reads the lines back
ReadRecords ==
    /\ tpc = "written"
    /\ parsedBack' = [k \in 1..Len(samLines) |-> getReadFromLine(genomePieces, samLines[k])]
    /\ tpc' = "read"
    /\ UNCHANGED <<genomePieces, samReads, alignments, withMate, samLines, bamRecords>>
    /\ UnchangedBySAMText

SAMTextNext ==
    \/ WriteRecords
    \/ ReadRecords

(***************************************************************************)
(* computeMAPQ (mapq.h).  A probability is a whole number of units of the  *)
(* smallest probability of the model, so that ratios are exact; what the   *)
(* code computes in doubles and truncates with (int) is computed here as   *)
(* the whole number the truncation gives.                                  *)
(***************************************************************************)
UnchangedByMapq == UNCHANGED <<qvars, mvars, ovars, wvars, avars, dvars, fvars, gvars, bvars, hvars, svars, rvars, tvars, ivars, zvars, xvars>>

\* 10^(t/10) for t = 1..9 in hundredths, rounded up; no ratio of two
\* probabilities of the model lies between such a power and its rounded value
TenthPowersOfTen == <<126, 159, 200, 252, 317, 399, 502, 631, 795>>

\* n / d in hundredths, rounded down, digit by digit
Hundredths(n, d) ==
    LET firstRest == 10 * (n % d)
        secondRest == 10 * (firstRest % d)
    IN  100 * (n \div d) + 10 * (firstRest \div d) + secondRest \div d

\* (int)(10 * log10(n / d)) for n >= d > 0
RECURSIVE TenLog10(_, _)
TenLog10(n, d) ==
    IF n \div d >= 10 THEN 10 + TenLog10(n, 10 * d)
    ELSE Cardinality({t \in 1..9 : TenthPowersOfTen[t] <= Hundredths(n, d)})

\* the least m with 10^m >= n: log10(n) rounded up
RECURSIVE CeilLog10(_)
CeilLog10(n) == IF n <= 1 THEN 0 ELSE 1 + CeilLog10((n + 9) \div 10)

\* line 48: the inputs for which there is no evidence of a mismatch at all
NoEvidenceOfMismatchOrHamming(all, best, score, skipped, usedHamming) ==
    all = best /\ skipped = 0 /\ score < 5

NoEvidenceOfMismatch(all, best, score, skipped, usedHamming) ==
    all = best /\ skipped = 0 /\ score < 5 /\ ~usedHamming

\* lines 72-78
baseMAPQ(all, best) ==
    IF best >= all THEN 69 ELSE Min(69, TenLog10(all, all - best))

\* lines 81-87
hammingPenalty(mapQuality, usedHamming) ==
    IF ~usedHamming THEN mapQuality
    ELSE IF mapQuality > 26 THEN 26
    ELSE IF mapQuality > 10 THEN mapQuality - 1
    ELSE mapQuality

\* line 94: (int)__max(0, baseMAPQ - log10(biggestClusterScored) * 3)
clusterPenalty(mapQuality, hasSimilarityMap, cluster) ==
    IF ~hasSimilarityMap THEN mapQuality
    ELSE Max(0, mapQuality - CeilLog10(cluster * cluster * cluster))

\* line 100
popularSeedsPenalty(mapQuality, skipped) ==
    Max(0, mapQuality - Max(0, skipped - 10) \div 2)

computeMAPQ(all, best, score, skipped, hasSimilarityMap, cluster, usedHamming) ==
    LET raised == Max(all, best)
    IN  IF NoEvidenceOfMismatch(raised, best, score, skipped, usedHamming) THEN 70
        ELSE popularSeedsPenalty(
                 clusterPenalty(hammingPenalty(baseMAPQ(raised, best), usedHamming),
                                hasSimilarityMap, cluster),
                 skipped)

\* a caller computes the mapping quality of its best candidate
ComputeMAPQ ==
    /\ kpc = "call"
    /\ mapq' = computeMAPQ(probabilityOfAllCandidates, probabilityOfBestCandidate,
                           candidateScore, seedsSkipped, similarityMapGiven,
                           biggestClusterScored, hammingUsed)
    /\ kpc' = "returned"
    /\ UNCHANGED <<probabilityOfAllCandidates, probabilityOfBestCandidate, candidateScore,
                   seedsSkipped, similarityMapGiven, biggestClusterScored, hammingUsed>>
    /\ UnchangedByMapq

MapqNext == ComputeMAPQ

(***************************************************************************)
(* SingleAlignerContext::runIterationThread (SingleAligner.cpp): a thread  *)
(* takes the reads of its supplier one by one, counts them, aligns those   *)
(* that are long enough and have few enough Ns, and writes them if there   *)
(* is a SAM writer and the filter passes them.  A step is one turn of the  *)
(* loop.                                                                   *)
(***************************************************************************)
UnchangedBySingle == UNCHANGED <<qvars, mvars, ovars, wvars, avars, dvars, fvars, gvars, bvars, hvars, svars, rvars, tvars, kvars, zvars, xvars>>

UnchangedOptions == UNCHANGED <<filterFlags, hasSamWriter, selectivity>>

\* AlignerOptions::passFilter
passFilter(flags, status) ==
    IF flags = {} THEN TRUE
    ELSE IF status \in {"NotFound", "UnknownAlignment"} THEN "FilterUnaligned" \in flags
    ELSE IF status \in {"SingleHit", "CertainHit"} THEN "FilterSingleHit" \in flags
    ELSE IF status = "MultipleHits" THEN "FilterMultipleHits" \in flags
    ELSE FALSE

\* line 140 without the test of the length
tooManyNs(read) == read.countOfNs > maxDist

\* line 140: read->getDataLength() < 50 || read->countOfNs() > maxDist
tooShortOrTooManyNs(read) == read.dataLength < MinReadLength \/ read.countOfNs > maxDist

\* SimpleSAMWriter::write of a read without a mate
writeSingle(read, status, location, isRC) ==
    generateSAMText(<<0>>, read, status, location, isRC, FALSE, FALSE,
                    NoRead, "NotFound", 0, FALSE)

\* SingleAlignerContext::updateStats
updateStats(stats, status) ==
    IF isOneLocation(status) THEN [stats EXCEPT !.singleHits = @ + 1]
    ELSE IF status = "MultipleHits" THEN [stats EXCEPT !.multiHits = @ + 1]
    ELSE [stats EXCEPT !.notFound = @ + 1]

\* lines 131-136: the read is not in the sample of 1 / selectivity
SkipUnselected ==
    /\ readsToAlign # <<>>
    /\ selectivity # 1
    /\ readsToAlign' = Tail(readsToAlign)
    /\ lastOutcome' = "skipped"
    /\ UNCHANGED <<alignerStats, alignedReads, samOutput>>
    /\ UnchangedOptions
    /\ UnchangedBySingle

\* lines 137-145: the read is counted and written as not found
RejectRead ==
    /\ readsToAlign # <<>>
    /\ tooShortOrTooManyNs(Head(readsToAlign))
    /\ readsToAlign' = Tail(readsToAlign)
    /\ alignerStats' = [alignerStats EXCEPT !.totalReads = @ + 1]
    /\ samOutput' =
           IF hasSamWriter /\ passFilter(filterFlags, "NotFound")
           THEN Append(samOutput,
                       writeSingle(Head(readsToAlign), "NotFound", InvalidGenomeLocation, FALSE))
           ELSE samOutput
    /\ lastOutcome' = "rejected"
    /\ UNCHANGED alignedReads
    /\ UnchangedOptions
    /\ UnchangedBySingle

\* lines 137-157: the read is counted, aligned, written and counted by result
AlignOneRead ==
    /\ readsToAlign # <<>>
    /\ ~tooShortOrTooManyNs(Head(readsToAlign))
    /\ readsToAlign' = Tail(readsToAlign)
    /\ alignedReads' = Append(alignedReads, Head(readsToAlign))
    /\ \E found \in Alignments(1) :
        /\ alignerStats' =
               updateStats([alignerStats EXCEPT !.totalReads = @ + 1,
                                                !.usefulReads = @ + 1],
                           found.status)
        /\ samOutput' =
               IF hasSamWriter /\ passFilter(filterFlags, found.status)
               THEN Append(samOutput,
                           writeSingle(Head(readsToAlign), found.status, found.location,
                                       found.isRC))
               ELSE samOutput
    /\ lastOutcome' = "aligned"
    /\ UnchangedOptions
    /\ UnchangedBySingle

SingleNext ==
    \/ SkipUnselected
    \/ RejectRead
    \/ AlignOneRead

(***************************************************************************)
(* GzipDataReader (DataReader.cpp) over a MemMapDataReader of batchCount   *)
(* batches that was created without overflow: the inner reader hands out   *)
(* compressed batches, the gzip reader inflates each into the extra slot   *)
(* of the inner reader's current batch, behind the bytes it carried over   *)
(* from the batch before.  Other threads call releaseBefore, which goes    *)
(* straight to the inner reader.                                           *)
(***************************************************************************)
UnchangedByGzipReader == UNCHANGED <<qvars, ovars, wvars, avars, dvars, fvars, gvars, bvars, hvars, svars, rvars, tvars, kvars, ivars, xvars>>

UnchangedInner ==
    UNCHANGED <<currentMapOffset, currentMapStartSize, currentMapSize, offset, currentBatch,
                startBytes, validBytes, earliestUnreleasedBatch, waiter, lockRecursive, ppc,
                lastGetData, releaser>>

\* MemMapDataReader::getExtra: the slot of batch cb in the extra buffer
extraSlot(cb) == (cb - 1) % batchCount

\* extraWritten is the batch whose slot the gzip reader wrote into last, 0
\* before the first write after reinit

\* GzipDataReader::reinit; the inner reader has no overflow
GzipReaderReinit(startAt, amountOfFile) ==
    /\ zpc \in {"constructed", "idle"}
    /\ LET startSize ==
               Max(0, Min(IF amountOfFile = 0 THEN fileSize ELSE amountOfFile,
                          fileSize - startAt))
       IN
        /\ currentMapOffset' = startAt
        /\ currentMapStartSize' = startSize
        /\ currentMapSize' = startSize
        /\ offset' = 0
        /\ validBytes' = Min(startSize, batchSize)
    /\ currentBatch' = 1
    /\ earliestUnreleasedBatch' = 1
    /\ waiter' = TRUE
    /\ ppc' = "idle"
    /\ gotBatchData' = FALSE
    /\ continueBlock' = FALSE
    /\ gzOffset' = 0
    /\ priorBytes' = 0
    /\ zpc' = "idle"
    /\ extraWritten' = 0
    /\ UNCHANGED <<startBytes, lockRecursive, lastGetData, releaser, gzValidBytes,
                   gzStartBytes, lastGzipData>>
    /\ UnchangedByGzipReader

\* line 568: what getData returns once the batch has been inflated
gzipGetDataResult(consumed, start) == consumed < start

\* GzipDataReader::decompressBatch after the inner getData is past its gate:
\* inflate gives inflated bytes, more than the slot has room for ends the run
DecompressBatch(inflated) ==
    IF ~getDataResult
    THEN IF isEOF
         THEN /\ gzOffset' = 0
              /\ gzValidBytes' = 0
              /\ gzStartBytes' = 0
              /\ gotBatchData' = TRUE
              /\ zpc' = "idle"
              /\ UNCHANGED <<offset, extraWritten>>
         ELSE /\ zpc' = "exit"
              /\ UNCHANGED <<gzOffset, gzValidBytes, gzStartBytes, gotBatchData, offset,
                             extraWritten>>
    ELSE IF inflated > extraBytes - priorBytes
    THEN /\ zpc' = "exit"
         /\ UNCHANGED <<gzOffset, gzValidBytes, gzStartBytes, gotBatchData, offset,
                        extraWritten>>
    ELSE /\ gzValidBytes' = inflated + priorBytes
         /\ gzStartBytes' = IF isEOF THEN inflated + priorBytes
                            ELSE inflated + priorBytes - overflowBytes
         /\ offset' = Min(offset + (validBytes - offset), validBytes)
         /\ gzOffset' = 0
         /\ gotBatchData' = TRUE
         /\ extraWritten' = IF inflated > 0 THEN currentBatch ELSE extraWritten
         /\ zpc' = "idle"

\* GzipDataReader::getData; the first call in a batch inflates it, and the inner
\* reader's getData may wait at its gate (line 918)
GzipReaderGetData ==
    /\ zpc = "idle"
    /\ IF gotBatchData
       THEN /\ lastGzipData' = gzipGetDataResult(gzOffset, gzStartBytes)
            /\ UNCHANGED <<gzOffset, gzValidBytes, gzStartBytes, gotBatchData, offset,
                           extraWritten, zpc>>
       ELSE IF GateClosed
       THEN /\ zpc' = "gateWait"
            /\ UNCHANGED <<gzOffset, gzValidBytes, gzStartBytes, gotBatchData, offset,
                           extraWritten, lastGzipData>>
       ELSE \E inflated \in 0..MaxInflated :
               /\ DecompressBatch(inflated)
               /\ lastGzipData' = (zpc' = "idle" /\ gzipGetDataResult(0, gzStartBytes'))
    /\ UNCHANGED <<currentMapOffset, currentMapStartSize, currentMapSize, currentBatch,
                   startBytes, validBytes, earliestUnreleasedBatch, waiter, lockRecursive, ppc,
                   lastGetData, releaser, priorBytes, continueBlock>>
    /\ UnchangedByGzipReader

\* WaitForSingleWaiterObject returns in the inner getData and getData goes on
GzipReaderGateWake ==
    /\ zpc = "gateWait"
    /\ waiter
    /\ \E inflated \in 0..MaxInflated :
           /\ DecompressBatch(inflated)
           /\ lastGzipData' = (zpc' = "idle" /\ gzipGetDataResult(0, gzStartBytes'))
    /\ UNCHANGED <<currentMapOffset, currentMapStartSize, currentMapSize, currentBatch,
                   startBytes, validBytes, earliestUnreleasedBatch, waiter, lockRecursive, ppc,
                   lastGetData, releaser, priorBytes, continueBlock>>
    /\ UnchangedByGzipReader

\* GzipDataReader::advance
GzipReaderAdvance(bytes) ==
    /\ zpc = "idle"
    /\ gzOffset' = Min(gzOffset + Max(0, bytes), gzValidBytes)
    /\ UNCHANGED <<gzValidBytes, gzStartBytes, priorBytes, gotBatchData, continueBlock,
                   extraWritten, lastGzipData, zpc>>
    /\ UnchangedInner
    /\ UnchangedByGzipReader

\* line 594: the trailing bytes of the batch that go into the next one
carriedBytes(valid, consumed, start) == valid - Max(consumed, start)

\* GzipDataReader::nextBatch up to the memcpy: inner->nextBatch(true) moves the
\* inner reader on without a look at the gate, and the carried bytes are copied
\* into the slot of the inner reader's batch
GzipReaderNextBatch(dontRelease) ==
    /\ zpc = "idle"
    /\ LET cb == IF isEOF THEN currentBatch ELSE currentBatch + 1
           carried == carriedBytes(gzValidBytes, gzOffset, gzStartBytes)
       IN
        /\ priorBytes' = carried
        /\ currentBatch' = cb
        /\ waiter' = IF ~isEOF /\ NextBatchResets(cb, earliestUnreleasedBatch)
                     THEN FALSE ELSE waiter
        /\ startBytes' = IF isEOF THEN startBytes
                         ELSE Min(batchSize, currentMapStartSize - (cb - 1) * batchSize)
        /\ validBytes' = IF isEOF THEN validBytes
                         ELSE Min(batchSize, currentMapSize - (cb - 1) * batchSize)
        /\ extraWritten' = IF carried > 0 THEN cb ELSE extraWritten
    /\ zpc' = IF dontRelease THEN "idle" ELSE "release"
    /\ gzOffset' = 0
    /\ gotBatchData' = FALSE
    /\ continueBlock' = TRUE
    /\ UNCHANGED <<currentMapOffset, currentMapStartSize, currentMapSize, offset,
                   earliestUnreleasedBatch, lockRecursive, ppc, lastGetData, releaser,
                   gzValidBytes, gzStartBytes, lastGzipData>>
    /\ UnchangedByGzipReader

\* MemMapDataReader::releaseBefore(batch) as one step of the calling thread
InnerReleaseBefore(batch) ==
    IF ReleaseGuard(batch, earliestUnreleasedBatch)
    THEN /\ waiter' = IF ReleaseSignals(currentBatch, earliestUnreleasedBatch, batch)
                      THEN TRUE ELSE waiter
         /\ earliestUnreleasedBatch' = Min(currentBatch, batch)
    ELSE UNCHANGED <<waiter, earliestUnreleasedBatch>>

\* lines 602-604: inner->releaseBefore(inner->getBatch())
GzipReaderRelease ==
    /\ zpc = "release"
    /\ InnerReleaseBefore(getBatch)
    /\ zpc' = "idle"
    /\ UNCHANGED <<currentMapOffset, currentMapStartSize, currentMapSize, offset, currentBatch,
                   startBytes, validBytes, lockRecursive, ppc, lastGetData, releaser,
                   gzValidBytes, gzStartBytes, gzOffset, priorBytes, gotBatchData,
                   continueBlock, extraWritten, lastGzipData>>
    /\ UnchangedByGzipReader

\* GzipDataReader::releaseBefore, called by a thread that is done with the
\* reads of the batches before batch
GzipReaderReleaseBefore(batch) ==
    /\ zpc \in {"idle", "release", "gateWait"}
    /\ InnerReleaseBefore(batch)
    /\ UNCHANGED <<currentMapOffset, currentMapStartSize, currentMapSize, offset, currentBatch,
                   startBytes, validBytes, lockRecursive, ppc, lastGetData, releaser>>
    /\ UNCHANGED zvars
    /\ UnchangedByGzipReader

\* the batches other threads release: those the reader has reached
GzipReleasedBatches == 1..currentBatch

GzipReaderNext ==
    \/ \E a \in ReinitArgs : GzipReaderReinit(a[1], a[2])
    \/ GzipReaderGetData
    \/ GzipReaderGateWake
    \/ \E n \in AdvanceBytes : GzipReaderAdvance(n)
    \/ \E d \in BOOLEAN : GzipReaderNextBatch(d)
    \/ GzipReaderRelease
    \/ \E b \in GzipReleasedBatches : GzipReaderReleaseBefore(b)

(***************************************************************************)
(* The filter suppliers of the repository and the types they declare:      *)
(* BAMDupMarkSupplier and its BAMDupMarkFilter (Bam.cpp), the              *)
(* GzipWriterFilterSupplier and its filter, and ComposeFilterSupplier      *)
(* and ComposeFilter over them (DataWriter.cpp).  supplierChain is the     *)
(* list of the suppliers composed so far, supplierType the filterType of   *)
(* the supplier the AsyncDataWriterSupplier holds, createdType that of     *)
(* the filter the last writer got from getFilter.                          *)
(***************************************************************************)
UnchangedByFilterSupplier == UNCHANGED <<qvars, mvars, ovars, wvars, avars, dvars, fvars, gvars, bvars, hvars, svars, rvars, tvars, kvars, ivars, zvars>>

SupplierKinds == {"markDuplicates", "gzip"}

\* the filterType a supplier passes to FilterSupplier's constructor
declaredType(kind) ==
    CASE kind = "markDuplicates" -> "Read"
      [] kind = "gzip" -> "Transform"

\* the type of the gzip filter: it replaces the contents of the buffer
gzipFilterType == "Transform"

\* the filterType the filter of getFilter passes to Filter's constructor
filterTypeCreated(kind) ==
    CASE kind = "markDuplicates" -> "Modify"
      [] kind = "gzip" -> gzipFilterType

\* ComposeFilterSupplier's constructor over the suppliers of a chain
RECURSIVE composedSupplierType(_)
composedSupplierType(chain) ==
    IF Len(chain) = 1 THEN declaredType(chain[1])
    ELSE maxFilterType(composedSupplierType(SubSeq(chain, 1, Len(chain) - 1)),
                       declaredType(chain[Len(chain)]))

\* ComposeFilterSupplier::getFilter: a ComposeFilter over a's and b's filters
RECURSIVE composedFilterType(_)
composedFilterType(chain) ==
    IF Len(chain) = 1 THEN filterTypeCreated(chain[1])
    ELSE maxFilterType(composedFilterType(SubSeq(chain, 1, Len(chain) - 1)),
                       filterTypeCreated(chain[Len(chain)]))

\* DataWriterSupplier::markDuplicates or gzip: the first filter supplier
NewFilterSupplier(kind) ==
    /\ xpc = "none"
    /\ supplierChain' = <<kind>>
    /\ supplierType' = composedSupplierType(<<kind>>)
    /\ xpc' = "supplier"
    /\ UNCHANGED <<createdType, writersMade, batchesWritten, handoff, closeTakesWriter>>
    /\ UnchangedByFilterSupplier

\* DataWriterSupplier::compose(a, b) with the supplier so far as a
ComposeSuppliers(kind) ==
    /\ xpc = "supplier"
    /\ writersMade = 0
    /\ Len(supplierChain) < MaxChain
    /\ supplierChain' = Append(supplierChain, kind)
    /\ supplierType' = composedSupplierType(Append(supplierChain, kind))
    /\ UNCHANGED <<createdType, writersMade, batchesWritten, handoff, closeTakesWriter, xpc>>
    /\ UnchangedByFilterSupplier

\* AsyncDataWriterSupplier::getWriter: the writer's filter is
\* filterSupplier->getFilter()
SupplierGetWriter ==
    /\ xpc = "supplier"
    /\ writersMade < NumWriters
    /\ writersMade' = writersMade + 1
    /\ createdType' = composedFilterType(supplierChain)
    /\ UNCHANGED <<supplierChain, supplierType, batchesWritten, handoff, closeTakesWriter, xpc>>
    /\ UnchangedByFilterSupplier

\* lines 192-193 of AsyncDataWriter::nextBatch: what the writer does with the
\* buffer, by the type of its filter
bufferHandoff(type) ==
    IF type = "Transform" THEN "newSize"
    ELSE IF type = "Copy" THEN "newBuffer"
    ELSE "inPlace"

\* AsyncDataWriter::nextBatch of a writer of the supplier
WriterDecidesHandoff ==
    /\ xpc = "supplier"
    /\ writersMade > 0
    /\ batchesWritten < MaxBatchesWritten
    /\ batchesWritten' = batchesWritten + 1
    /\ handoff' = bufferHandoff(createdType)
    /\ UNCHANGED <<supplierChain, supplierType, createdType, writersMade, closeTakesWriter, xpc>>
    /\ UnchangedByFilterSupplier

\* lines 270 and 277 of AsyncDataWriterSupplier::close: onClose gets a writer
\* for the end of the file only from a supplier of type TransformFilter
closeGivesWriter(type) == type = "Transform"

\* AsyncDataWriterSupplier::close
SupplierClose ==
    /\ xpc = "supplier"
    /\ closeTakesWriter' = closeGivesWriter(supplierType)
    /\ xpc' = "closed"
    /\ UNCHANGED <<supplierChain, supplierType, createdType, writersMade, batchesWritten, handoff>>
    /\ UnchangedByFilterSupplier

FilterSupplierNext ==
    \/ \E kind \in SupplierKinds : NewFilterSupplier(kind)
    \/ \E kind \in SupplierKinds : ComposeSuppliers(kind)
    \/ SupplierGetWriter
    \/ WriterDecidesHandoff
    \/ SupplierClose

(***************************************************************************)
(* Specifications                                                          *)
(***************************************************************************)
\* a queue that is constructed and left alone
QueueIdle ==
    /\ QueueInit
    /\ mode = "single"
    /\ fileLen = 1
    /\ pendingReadInNextBatch = [r \in Readers |-> FALSE]

\* a MemMapDataReader nobody uses: no thread ever calls it
MemMapOff ==
    /\ currentMapOffset = 0
    /\ currentMapStartSize = 0
    /\ currentMapSize = 0
    /\ offset = 0
    /\ currentBatch = 1
    /\ startBytes = 0
    /\ validBytes = 0
    /\ earliestUnreleasedBatch = 1
    /\ waiter = FALSE
    /\ lockRecursive = FALSE
    /\ ppc = "off"
    /\ lastGetData = "none"
    /\ releaser = [t \in Releasers |-> [pc |-> "off", batch |-> 0]]

\* a WindowsOverlappedDataReader nobody uses
OverlappedOff == OverlappedConstructed /\ opc = "off"

\* a writer supplier nobody uses
WriterOff ==
    /\ count = 2
    /\ filterType = "None"
    /\ wpc = [w \in Writers |-> "off"]
    /\ WriterConstructed

\* an aligner nobody calls
AlignerOff ==
    /\ dataLength = 50
    /\ editDistances = {}
    /\ matchProbabilities = {}
    /\ locationOffsets = {}
    /\ countOfNs = 0
    /\ setPair = [i \in SetPairs |-> [r \in ReadsOfPair |-> HitSetOf(<<>>)]]
    /\ readWithMoreHits = 1
    /\ AlignerConstructed
    /\ apc = "off"

\* a duplicate-marking filter nobody calls
DupMarkOff ==
    /\ records = <<>>
    /\ nextToRead = 1
    /\ mates = <<>>
    /\ runOffset = 0
    /\ runLocation = UINT32_MAX
    /\ runCount = 0
    /\ dpc = "off"
    /\ recordsPerBatch = 1

\* no filters are composed
ComposeOff ==
    /\ typeA = "None"
    /\ typeB = "None"
    /\ composedType = "None"
    /\ resultOfA = <<>>
    /\ resultOfB = <<>>
    /\ calls = <<>>
    /\ composedResult = Unset
    /\ fpc = "off"

\* no gzip filter supplier
GzipOff ==
    /\ translation = <<>>
    /\ logicalAsked = 0
    /\ virtualOffset = 0
    /\ gpc = "off"

\* no BAM record is encoded or decoded
BamOff ==
    /\ original = <<>>
    /\ ascii = <<>>
    /\ encoded = <<>>
    /\ l_seq = 0
    /\ storedQual = <<>>
    /\ o_qual = <<>>
    /\ bpc = "off"

\* no hit set is used on its own
HitSetOff ==
    /\ hitSet = HitSetOf(<<>>)
    /\ hitSetBefore = HitSetOf(<<>>)
    /\ maxAsked = 0
    /\ answer = NoAnswer
    /\ hitSetCalls = 0
    /\ hpc = "off"

\* no seeds are looked up
SeedLookupOff ==
    /\ readLen = [r \in ReadsOfPair |-> seedLen]
    /\ seedsWithN = [r \in ReadsOfPair |-> {}]
    /\ whichRead = NUM_READS_PER_PAIR
    /\ nextSeedToTest = 0
    /\ wrapCount = 0
    /\ seedUsed = {}
    /\ countOfHashTableLookups = [r \in ReadsOfPair |-> 0]
    /\ popularSeedsSkipped = [r \in ReadsOfPair |-> 0]
    /\ totalHits = [r \in ReadsOfPair |-> [dir \in Directions |-> 0]]
    /\ hashTableHitSets = [r \in ReadsOfPair |-> [dir \in Directions |-> <<>>]]
    /\ seedHits = [dir \in Directions |-> <<>>]
    /\ spc = "off"

\* no SAM file is read
SAMReaderOff ==
    /\ lineLengths = <<>>
    /\ pairedInput = FALSE
    /\ headerSize = 1
    /\ rangeStarts = <<0>>
    /\ readerKind = "MemMap"
    /\ rangeIndex = 1
    /\ pos = 0
    /\ endPos = 0
    /\ returnedCount = <<>>
    /\ samPc = "off"

\* no gzip reader is in use
GzipReaderOff ==
    /\ gzValidBytes = 0
    /\ gzStartBytes = 0
    /\ gzOffset = 0
    /\ priorBytes = 0
    /\ gotBatchData = FALSE
    /\ continueBlock = FALSE
    /\ extraWritten = 0
    /\ lastGzipData = FALSE
    /\ zpc = "off"

\* no filter supplier is made
FilterSupplierOff ==
    /\ supplierChain = <<>>
    /\ supplierType = "None"
    /\ createdType = "None"
    /\ writersMade = 0
    /\ batchesWritten = 0
    /\ handoff = "none"
    /\ closeTakesWriter = FALSE
    /\ xpc = "off"

\* no single-end alignment runs
SingleOff ==
    /\ readsToAlign = <<>>
    /\ filterFlags = {}
    /\ hasSamWriter = FALSE
    /\ selectivity = 1
    /\ alignerStats = [totalReads |-> 0, usefulReads |-> 0, singleHits |-> 0,
                       multiHits |-> 0, notFound |-> 0]
    /\ alignedReads = <<>>
    /\ samOutput = <<>>
    /\ lastOutcome = "off"

\* no mapping quality is computed
MapqOff ==
    /\ probabilityOfAllCandidates = 0
    /\ probabilityOfBestCandidate = 0
    /\ candidateScore = 0
    /\ seedsSkipped = 0
    /\ similarityMapGiven = FALSE
    /\ biggestClusterScored = 0
    /\ hammingUsed = FALSE
    /\ mapq = 0
    /\ kpc = "off"

\* no SAM or BAM record is written
SAMTextOff ==
    /\ genomePieces = <<0>>
    /\ samReads = <<>>
    /\ alignments = <<>>
    /\ withMate = FALSE
    /\ samLines = <<>>
    /\ bamRecords = <<>>
    /\ parsedBack = <<>>
    /\ tpc = "off"

\* startBytes is not set by the constructor; the build's ExclusiveLock is a
\* CRITICAL_SECTION (its holder may take it again) or a mutex (it may not)
MemMapInit ==
    /\ QueueIdle
    /\ FilterSupplierOff
    /\ GzipReaderOff
    /\ SingleOff
    /\ MapqOff
    /\ SAMTextOff
    /\ SAMReaderOff
    /\ SeedLookupOff
    /\ HitSetOff
    /\ BamOff
    /\ GzipOff
    /\ ComposeOff
    /\ MemMapConstructed
    /\ startBytes \in Uninitialized
    /\ lockRecursive \in BOOLEAN
    /\ OverlappedOff
    /\ WriterOff
    /\ AlignerOff
    /\ DupMarkOff

MemMapSpec == MemMapInit /\ [][MemMapNext]_vars

\* the producer's thread goes on when WaitForSingleWaiterObject can return, and
\* a thread inside releaseBefore gets the lock when it is free
MemMapFairSpec ==
    /\ MemMapSpec
    /\ WF_vars(GateWake)
    /\ \A t \in Releasers : WF_vars(ReleaseBeforeLocked(t))

\* the queue's specification: the data readers are constructed and not used
Init ==
    /\ QueueInit
    /\ FilterSupplierOff
    /\ GzipReaderOff
    /\ SingleOff
    /\ MapqOff
    /\ SAMTextOff
    /\ SAMReaderOff
    /\ SeedLookupOff
    /\ HitSetOff
    /\ BamOff
    /\ GzipOff
    /\ ComposeOff
    /\ MemMapOff
    /\ OverlappedOff
    /\ WriterOff
    /\ AlignerOff
    /\ DupMarkOff

Spec == Init /\ [][Next]_vars

\* every thread that can take a step eventually takes one
FairSpec ==
    /\ Spec
    /\ \A r \in Readers : WF_vars(ReaderStep(r))
    /\ \A c \in Suppliers : WF_vars(SupplierStep(c))
    /\ WF_vars(WaitUntilFinished)

\* only the reader threads are sure to be scheduled; the consumers may stop
ReaderFairSpec ==
    /\ Spec
    /\ \A r \in Readers : WF_vars(ReaderStep(r))

\* the overlapped reader on its own
OverlappedInit ==
    /\ QueueIdle
    /\ FilterSupplierOff
    /\ GzipReaderOff
    /\ SingleOff
    /\ MapqOff
    /\ SAMTextOff
    /\ SAMReaderOff
    /\ SeedLookupOff
    /\ HitSetOff
    /\ BamOff
    /\ GzipOff
    /\ ComposeOff
    /\ MemMapOff
    /\ OverlappedConstructed
    /\ opc = "constructed"
    /\ WriterOff
    /\ AlignerOff
    /\ DupMarkOff

OverlappedSpec == OverlappedInit /\ [][OverlappedNext]_vars

\* either data reader, driven through the DataReader interface
DataReaderNext == MemMapNext \/ OverlappedNext

DataReaderSpec == (MemMapInit \/ OverlappedInit) /\ [][DataReaderNext]_vars

\* one writer, with any buffer count and any filter type
WriterInit ==
    /\ QueueIdle
    /\ FilterSupplierOff
    /\ GzipReaderOff
    /\ SingleOff
    /\ MapqOff
    /\ SAMTextOff
    /\ SAMReaderOff
    /\ SeedLookupOff
    /\ HitSetOff
    /\ BamOff
    /\ GzipOff
    /\ ComposeOff
    /\ MemMapOff
    /\ OverlappedOff
    /\ count \in 2..MaxCount
    /\ filterType \in FilterTypes
    /\ wpc = [w \in Writers |-> IF w = 1 THEN "idle" ELSE "off"]
    /\ WriterConstructed
    /\ AlignerOff
    /\ DupMarkOff

WriterSpec == WriterInit /\ [][WriterNext]_vars

\* all the writers of one supplier, with two buffers each and any filter type
SharedSupplierInit ==
    /\ QueueIdle
    /\ FilterSupplierOff
    /\ GzipReaderOff
    /\ SingleOff
    /\ MapqOff
    /\ SAMTextOff
    /\ SAMReaderOff
    /\ SeedLookupOff
    /\ HitSetOff
    /\ BamOff
    /\ GzipOff
    /\ ComposeOff
    /\ MemMapOff
    /\ OverlappedOff
    /\ count = 2
    /\ filterType \in FilterTypes
    /\ wpc = [w \in Writers |-> "idle"]
    /\ WriterConstructed
    /\ AlignerOff
    /\ DupMarkOff

SharedSupplierSpec == SharedSupplierInit /\ [][WriterNext]_vars

\* the hit arrays a seed at offset s can have: strictly descending, and no hit
\* lower than the offset
HitArrays(s) ==
    {h \in UNION {[1..n -> s..MaxLocation] : n \in 1..MaxHitsPerLookup} :
        \A k \in 1..(Len(h) - 1) : h[k] > h[k + 1]}
Lookups == UNION {{recordLookup(s, h) : h \in HitArrays(s)} : s \in SeedOffsets}
\* phase 1 looks each seed offset up once
LookupLists ==
    {<<>>} \cup {<<l>> : l \in Lookups}
           \cup {p \in {<<l, m>> : l \in Lookups, m \in Lookups} :
                    p[1].seedOffset < p[2].seedOffset}

\* reads that go to the base aligner
FallbackInput ==
    /\ \E in \in {<<49, 0>>, <<50, maxK + 1>>} :
        /\ dataLength = in[1]
        /\ countOfNs = in[2]
    /\ setPair = [i \in SetPairs |-> [r \in ReadsOfPair |-> HitSetOf(<<>>)]]
    /\ readWithMoreHits = 1
    /\ editDistances = {}
    /\ matchProbabilities = {}
    /\ locationOffsets = {}

\* reads whose seed lookups recorded a and b in the first set pair, c and d in the other
IntersectionInput(a, b, c, d) ==
    /\ dataLength = 50
    /\ countOfNs = 0
    /\ setPair = [i \in SetPairs |-> [r \in ReadsOfPair |->
           HitSetOf(IF i = 0 THEN (IF r = 0 THEN a ELSE b)
                    ELSE (IF r = 0 THEN c ELSE d))]]
    /\ readWithMoreHits =
           IF totalHashTableHits(HitSetOf(a)) + totalHashTableHits(HitSetOf(c))
              > totalHashTableHits(HitSetOf(b)) + totalHashTableHits(HitSetOf(d))
           THEN 0 ELSE 1

\* one align call: reads for the base aligner, reads with any hit sets that
\* match exactly wherever they match, or reads with few hits and any scores
AlignerInit ==
    /\ QueueIdle
    /\ FilterSupplierOff
    /\ GzipReaderOff
    /\ SingleOff
    /\ MapqOff
    /\ SAMTextOff
    /\ SAMReaderOff
    /\ SeedLookupOff
    /\ HitSetOff
    /\ BamOff
    /\ GzipOff
    /\ ComposeOff
    /\ MemMapOff
    /\ OverlappedOff
    /\ WriterOff
    /\ DupMarkOff
    /\ AlignerConstructed
    /\ apc = "align"
    /\ \/ FallbackInput
       \/ /\ editDistances = {0}
          /\ matchProbabilities = {2}
          /\ locationOffsets = {0}
          /\ \E a \in {l \in LookupLists : Len(l) <= 1}, b \in LookupLists,
                other \in {<<<<>>, <<>>>>,
                            <<<<recordLookup(0, <<2>>)>>, <<recordLookup(0, <<3>>)>>>>} :
                IntersectionInput(a, b, other[1], other[2])
       \/ /\ editDistances = EditDistances
          /\ matchProbabilities = MatchProbabilities
          /\ locationOffsets = LocationOffsets
          /\ \E a \in {<<l>> : l \in {m \in Lookups : m.seedOffset = 0 /\ nHits(m) = 1}},
                b \in {<<l>> : l \in {m \in Lookups : m.seedOffset = 0}} :
                IntersectionInput(a, b, <<>>, <<>>)

AlignerSpec == AlignerInit /\ [][AlignerNext]_vars

\* quality strings of ReadLength bases
Qualities == [1..ReadLength -> QualityValues]

\* the quality strings of paired reads: one for each total
PairQualities == {q \in Qualities : q[1] >= q[2] /\ q[1] # 255}

\* an unpaired read mapped at location
Unpaired(name, location, rc, qual) ==
    BAMAlignment(name, location, UINT32_MAX,
                 IF rc THEN {"SAM_REVERSE_COMPLEMENT"} ELSE {}, qual)

\* the two records of a pair with both ends mapped; the first segment is
\* forward and the last one reversed, or the other way round
FirstOfPair(name, location, nextLocation, rc, qual) ==
    BAMAlignment(name, location, nextLocation,
                 {"SAM_MULTI_SEGMENT", "SAM_FIRST_SEGMENT"}
                     \cup (IF rc THEN {"SAM_REVERSE_COMPLEMENT"} ELSE {"SAM_NEXT_REVERSED"}),
                 qual)
\* the first segment of a pair whose last segment is not aligned
FirstAlone(name, location, rc, qual) ==
    BAMAlignment(name, location, UINT32_MAX,
                 {"SAM_MULTI_SEGMENT", "SAM_FIRST_SEGMENT"}
                     \cup (IF rc THEN {"SAM_REVERSE_COMPLEMENT"} ELSE {}),
                 qual)
\* the last segment of a pair, not aligned, its mate at nextLocation
UnmappedLast(name, nextLocation, mateRC, qual) ==
    BAMAlignment(name, UINT32_MAX, nextLocation,
                 {"SAM_MULTI_SEGMENT", "SAM_LAST_SEGMENT", "SAM_UNMAPPED"}
                     \cup (IF mateRC THEN {"SAM_NEXT_REVERSED"} ELSE {}),
                 qual)
LastOfPair(name, location, nextLocation, rc, qual) ==
    BAMAlignment(name, location, nextLocation,
                 {"SAM_MULTI_SEGMENT", "SAM_LAST_SEGMENT"}
                     \cup (IF rc THEN {"SAM_NEXT_REVERSED"} ELSE {"SAM_REVERSE_COMPLEMENT"}),
                 qual)

\* sorted files: up to MaxRunLength unpaired reads at one location, or two pairs
\* with their first segments at one location and their last segments at a
\* higher one; a read at a still higher location ends the last run
SortedFiles ==
    UNION {{[i \in 1..(n + 1) |->
                IF i <= n THEN Unpaired(i, 1, rc[i], qual[i])
                ELSE Unpaired(i, 2, FALSE, qual[1])] :
                rc \in [1..n -> BOOLEAN], qual \in [1..n -> Qualities]} : n \in 2..MaxRunLength}
    \cup
    {<<FirstOfPair(1, 1, 2, FALSE, qual[1]), FirstOfPair(2, 1, 2, rc, qual[2]),
       LastOfPair(order[1], 2, 1, IF order[1] = 1 THEN FALSE ELSE rc, qual[2 + order[1]]),
       LastOfPair(order[2], 2, 1, IF order[2] = 1 THEN FALSE ELSE rc, qual[2 + order[2]]),
       Unpaired(3, 3, FALSE, qual[1])>> :
       rc \in BOOLEAN, qual \in [1..4 -> PairQualities], order \in {<<1, 2>>, <<2, 1>>}}

\* two pairs at one location with the last segments not aligned: an unmapped
\* read is written without a location and comes right after its mate
HalfMappedFiles ==
    {<<FirstAlone(1, 1, rc, qual[1]), UnmappedLast(1, 1, rc, qual[2]),
       FirstAlone(2, 1, rc, qual[3]), UnmappedLast(2, 1, rc, qual[4]),
       Unpaired(3, 2, FALSE, qual[1])>> :
       rc \in BOOLEAN, qual \in [1..4 -> PairQualities]}

DupMarkInit ==
    /\ QueueIdle
    /\ FilterSupplierOff
    /\ GzipReaderOff
    /\ SingleOff
    /\ MapqOff
    /\ SAMTextOff
    /\ SAMReaderOff
    /\ SeedLookupOff
    /\ HitSetOff
    /\ BamOff
    /\ GzipOff
    /\ ComposeOff
    /\ MemMapOff
    /\ OverlappedOff
    /\ WriterOff
    /\ AlignerOff
    /\ records \in SortedFiles \cup HalfMappedFiles
    /\ nextToRead = 1
    /\ mates = <<>>
    /\ runOffset = 0
    /\ runLocation = UINT32_MAX
    /\ runCount = 0
    /\ dpc = "marking"
    /\ recordsPerBatch \in 1..Len(records)

DupMarkSpec == DupMarkInit /\ [][DupMarkNext]_vars

\* two filter suppliers of any types, about to be composed
ComposeInit ==
    /\ QueueIdle
    /\ FilterSupplierOff
    /\ GzipReaderOff
    /\ SingleOff
    /\ MapqOff
    /\ SAMTextOff
    /\ SAMReaderOff
    /\ SeedLookupOff
    /\ HitSetOff
    /\ BamOff
    /\ GzipOff
    /\ MemMapOff
    /\ OverlappedOff
    /\ WriterOff
    /\ AlignerOff
    /\ DupMarkOff
    /\ typeA \in ComposableTypes
    /\ typeB \in ComposableTypes
    /\ composedType = "None"
    /\ resultOfA = [n \in Sizes |-> n]
    /\ resultOfB = [n \in Sizes |-> n]
    /\ calls = <<>>
    /\ composedResult = Unset
    /\ fpc = "suppliers"

ComposeSpec == ComposeInit /\ [][ComposeNext]_vars

\* a gzip filter supplier with no block written yet
GzipInit ==
    /\ QueueIdle
    /\ FilterSupplierOff
    /\ GzipReaderOff
    /\ SingleOff
    /\ MapqOff
    /\ SAMTextOff
    /\ SAMReaderOff
    /\ SeedLookupOff
    /\ HitSetOff
    /\ BamOff
    /\ MemMapOff
    /\ OverlappedOff
    /\ WriterOff
    /\ AlignerOff
    /\ DupMarkOff
    /\ ComposeOff
    /\ translation = <<>>
    /\ logicalAsked = 0
    /\ virtualOffset = 0
    /\ gpc = "writing"

GzipSpec == GzipInit /\ [][GzipNext]_vars

\* the base strings over the BAM alphabet, and the packed arrays of any bytes
BaseStrings == UNION {[1..n -> {CodeToSeq[i] : i \in 1..16}] : n \in 0..MaxBases}
NibbleArrays(nBases) == [1..((nBases + 1) \div 2) -> 0..255]

\* a base string about to be packed, or a packed array about to be decoded
BamSeqInit ==
    /\ QueueIdle
    /\ FilterSupplierOff
    /\ GzipReaderOff
    /\ SingleOff
    /\ MapqOff
    /\ SAMTextOff
    /\ SAMReaderOff
    /\ SeedLookupOff
    /\ HitSetOff
    /\ MemMapOff
    /\ OverlappedOff
    /\ WriterOff
    /\ AlignerOff
    /\ DupMarkOff
    /\ ComposeOff
    /\ GzipOff
    /\ storedQual = <<>>
    /\ o_qual = <<>>
    /\ \/ /\ original \in BaseStrings
          /\ ascii = original
          /\ encoded = <<>>
          /\ l_seq = Len(original)
          /\ bpc = "text"
       \/ /\ l_seq \in 0..MaxBases
          /\ original \in NibbleArrays(l_seq)
          /\ encoded = original
          /\ ascii = <<>>
          /\ bpc = "nibbles"

BamSeqSpec == BamSeqInit /\ [][BamSeqNext]_vars

\* the quality strings of a read in a SAM or FASTQ file
QualityStrings == UNION {[1..n -> ExclamationMark..MaxQualityChar] : n \in 0..MaxQualLength}

BamQualInit ==
    /\ QueueIdle
    /\ FilterSupplierOff
    /\ GzipReaderOff
    /\ SingleOff
    /\ MapqOff
    /\ SAMTextOff
    /\ SAMReaderOff
    /\ SeedLookupOff
    /\ HitSetOff
    /\ MemMapOff
    /\ OverlappedOff
    /\ WriterOff
    /\ AlignerOff
    /\ DupMarkOff
    /\ ComposeOff
    /\ GzipOff
    /\ original \in QualityStrings
    /\ ascii = <<>>
    /\ encoded = <<>>
    /\ l_seq = Len(original)
    /\ storedQual = <<>>
    /\ o_qual = <<>>
    /\ bpc = "quality"

BamQualSpec == BamQualInit /\ [][BamQualNext]_vars

\* a hit set with the lookups of one read recorded
HitSetInit ==
    /\ QueueIdle
    /\ FilterSupplierOff
    /\ GzipReaderOff
    /\ SingleOff
    /\ MapqOff
    /\ SAMTextOff
    /\ SAMReaderOff
    /\ SeedLookupOff
    /\ MemMapOff
    /\ OverlappedOff
    /\ WriterOff
    /\ AlignerOff
    /\ DupMarkOff
    /\ ComposeOff
    /\ GzipOff
    /\ BamOff
    /\ hitSet \in {HitSetOf(l) : l \in LookupLists}
    /\ hitSetBefore = hitSet
    /\ maxAsked = 0
    /\ answer = NoAnswer
    /\ hitSetCalls = 0
    /\ hpc = "recorded"

HitSetSpec == HitSetInit /\ [][HitSetNext]_vars

\* the sets of seeds of a read that have Ns in them
SeedsWithNs(len) == SUBSET (0..(len - seedLen))

\* lines 152-165 and 215-219: align has cleared the counts and the hit sets
\* and starts the lookups of the first read
SeedLookupInit ==
    /\ QueueIdle
    /\ FilterSupplierOff
    /\ GzipReaderOff
    /\ SingleOff
    /\ MapqOff
    /\ SAMTextOff
    /\ SAMReaderOff
    /\ MemMapOff
    /\ OverlappedOff
    /\ WriterOff
    /\ AlignerOff
    /\ DupMarkOff
    /\ ComposeOff
    /\ GzipOff
    /\ BamOff
    /\ HitSetOff
    /\ readLen \in [ReadsOfPair -> seedLen..MaxReadLen]
    /\ seedsWithN \in [ReadsOfPair -> SUBSET (0..(MaxReadLen - seedLen))]
    /\ \A r \in ReadsOfPair : seedsWithN[r] \in SeedsWithNs(readLen[r])
    /\ whichRead = 0
    /\ nextSeedToTest = 0
    /\ wrapCount = 0
    /\ seedUsed = {}
    /\ countOfHashTableLookups = [r \in ReadsOfPair |-> 0]
    /\ popularSeedsSkipped = [r \in ReadsOfPair |-> 0]
    /\ totalHits = [r \in ReadsOfPair |-> [dir \in Directions |-> 0]]
    /\ hashTableHitSets = [r \in ReadsOfPair |-> [dir \in Directions |-> <<>>]]
    /\ seedHits = [dir \in Directions |-> <<>>]
    /\ spc = "seeds"

SeedLookupSpec == SeedLookupInit /\ [][SeedLookupNext]_vars

\* the bodies of SAM files: lines of at least two bytes
SAMBodies == UNION {[1..n -> 2..MaxLineLength] : n \in 1..MaxLines}

\* the divisions of a file into consecutive ranges: the first starts at 0, the
\* others in the body
RangeDivisions(header, size) ==
    {s \in UNION {[1..n -> 0..(size - 1)] : n \in 1..MaxRanges} :
        /\ s[1] = 0
        /\ \A k \in 2..Len(s) : s[k] >= header /\ s[k] > s[k - 1]}

\* SAMReader::create has parsed the header of a file; the first range is next
SAMReaderInit ==
    /\ QueueIdle
    /\ FilterSupplierOff
    /\ GzipReaderOff
    /\ SingleOff
    /\ MapqOff
    /\ SAMTextOff
    /\ MemMapOff
    /\ OverlappedOff
    /\ WriterOff
    /\ AlignerOff
    /\ DupMarkOff
    /\ ComposeOff
    /\ GzipOff
    /\ BamOff
    /\ HitSetOff
    /\ SeedLookupOff
    /\ lineLengths \in SAMBodies
    /\ pairedInput \in {paired \in BOOLEAN : paired => Len(lineLengths) % 2 = 0}
    /\ headerSize \in 1..MaxHeaderSize
    /\ rangeStarts \in RangeDivisions(headerSize, samFileSize)
    /\ readerKind \in {"MemMap", "WindowsOverlapped"}
    /\ rangeIndex = 1
    /\ pos = 0
    /\ endPos = 0
    /\ returnedCount = [i \in Lines |-> 0]
    /\ samPc = "reinit"

SAMReaderSpec == SAMReaderInit /\ [][SAMReaderNext]_vars

\* the reads a record is written for: the clipped length, the bases clipped
\* from the front and the length before clipping
SAMReads ==
    {[dataLength |-> n, frontClippedLength |-> f, unclippedLength |-> f + n + b] :
        n \in 1..MaxDataLength, f \in 0..MaxClipped, b \in 0..MaxClipped}

SAMTextInit ==
    /\ QueueIdle
    /\ FilterSupplierOff
    /\ GzipReaderOff
    /\ SingleOff
    /\ MapqOff
    /\ MemMapOff
    /\ OverlappedOff
    /\ WriterOff
    /\ AlignerOff
    /\ DupMarkOff
    /\ ComposeOff
    /\ GzipOff
    /\ BamOff
    /\ HitSetOff
    /\ SeedLookupOff
    /\ SAMReaderOff
    /\ genomePieces \in {<<0>>, <<0, 2>>}
    /\ withMate \in BOOLEAN
    /\ samReads \in [0..(IF withMate THEN 1 ELSE 0) -> SAMReads]
    /\ alignments \in [0..(IF withMate THEN 1 ELSE 0) ->
                          Alignments(IF withMate THEN MaxMateLocation
                                     ELSE MaxGenomeLocation)]
    /\ samLines = <<>>
    /\ bamRecords = <<>>
    /\ parsedBack = <<>>
    /\ tpc = "write"

SAMTextSpec == SAMTextInit /\ [][SAMTextNext]_vars

RECURSIVE PowerOfTen(_)
PowerOfTen(j) == IF j = 0 THEN 1 ELSE 10 * PowerOfTen(j - 1)

\* probabilities close to each other and probabilities far apart
Probabilities ==
    {1, 2, 3} \cup {PowerOfTen(j) : j \in 1..MaxProbabilityDigits}
              \cup {PowerOfTen(j) - 1 : j \in 1..MaxProbabilityDigits}

\* the best candidate has a probability above 0, the sum of all may have
\* been rounded below it; a similarity map has clusters of one member or more
MapqInit ==
    /\ QueueIdle
    /\ FilterSupplierOff
    /\ GzipReaderOff
    /\ SingleOff
    /\ MemMapOff
    /\ OverlappedOff
    /\ WriterOff
    /\ AlignerOff
    /\ DupMarkOff
    /\ ComposeOff
    /\ GzipOff
    /\ BamOff
    /\ HitSetOff
    /\ SeedLookupOff
    /\ SAMReaderOff
    /\ SAMTextOff
    /\ probabilityOfBestCandidate \in Probabilities
    /\ probabilityOfAllCandidates \in Probabilities
    /\ candidateScore \in 0..MaxScore
    /\ seedsSkipped \in 0..MaxSeedsSkipped
    /\ similarityMapGiven \in BOOLEAN
    /\ biggestClusterScored \in IF similarityMapGiven THEN 1..MaxCluster ELSE {0}
    /\ hammingUsed \in BOOLEAN
    /\ mapq = 0
    /\ kpc = "call"

MapqSpec == MapqInit /\ [][MapqNext]_vars

\* the reads a supplier hands out: just long enough or one base too short,
\* with no more Ns than the edit distance limit or one more
SuppliedReads ==
    {[dataLength |-> n, countOfNs |-> c] :
        n \in (MinReadLength - 1)..MinReadLength, c \in maxDist..(maxDist + 1)}
SuppliedSequences ==
    UNION {[1..n -> SuppliedReads] : n \in 1..MaxSuppliedReads}

\* the options -F a, -F s, -F u or none, with or without -o
FilterOptions ==
    {{}, {"FilterSingleHit", "FilterMultipleHits"}, {"FilterSingleHit"}, {"FilterUnaligned"}}

SingleInit ==
    /\ QueueIdle
    /\ FilterSupplierOff
    /\ GzipReaderOff
    /\ MemMapOff
    /\ OverlappedOff
    /\ WriterOff
    /\ AlignerOff
    /\ DupMarkOff
    /\ ComposeOff
    /\ GzipOff
    /\ BamOff
    /\ HitSetOff
    /\ SeedLookupOff
    /\ SAMReaderOff
    /\ SAMTextOff
    /\ MapqOff
    /\ readsToAlign \in SuppliedSequences
    /\ filterFlags \in FilterOptions
    /\ hasSamWriter \in BOOLEAN
    /\ selectivity \in 1..MaxSelectivity
    /\ alignerStats = [totalReads |-> 0, usefulReads |-> 0, singleHits |-> 0,
                       multiHits |-> 0, notFound |-> 0]
    /\ alignedReads = <<>>
    /\ samOutput = <<>>
    /\ lastOutcome = "start"

SingleSpec == SingleInit /\ [][SingleNext]_vars

\* what the fields no constructor and no reinit writes may hold
UninitializedGzip == {-1, 0, extraBytes + 1}

\* the GzipDataReader constructor sets overflowBytes, extraBytes, inner and
\* zstream; offset, priorBytes, gotBatchData and continueBlock are written by
\* reinit before anything reads them, validBytes and startBytes are not
GzipReaderInit ==
    /\ QueueIdle
    /\ FilterSupplierOff
    /\ SingleOff
    /\ MapqOff
    /\ SAMTextOff
    /\ SAMReaderOff
    /\ SeedLookupOff
    /\ HitSetOff
    /\ BamOff
    /\ GzipOff
    /\ ComposeOff
    /\ MemMapConstructed
    /\ startBytes \in Uninitialized
    /\ lockRecursive = TRUE
    /\ OverlappedOff
    /\ WriterOff
    /\ AlignerOff
    /\ DupMarkOff
    /\ gzValidBytes \in UninitializedGzip
    /\ gzStartBytes \in UninitializedGzip
    /\ gzOffset = 0
    /\ priorBytes = 0
    /\ gotBatchData = FALSE
    /\ continueBlock = FALSE
    /\ extraWritten = 0
    /\ lastGzipData = FALSE
    /\ zpc = "constructed"

GzipReaderSpec == GzipReaderInit /\ [][GzipReaderNext]_vars

\* an AsyncDataWriterSupplier before its filter supplier is made
FilterSupplierInit ==
    /\ QueueIdle
    /\ GzipReaderOff
    /\ SingleOff
    /\ MapqOff
    /\ SAMTextOff
    /\ SAMReaderOff
    /\ SeedLookupOff
    /\ HitSetOff
    /\ BamOff
    /\ GzipOff
    /\ ComposeOff
    /\ MemMapOff
    /\ OverlappedOff
    /\ WriterOff
    /\ AlignerOff
    /\ DupMarkOff
    /\ supplierChain = <<>>
    /\ supplierType = "None"
    /\ createdType = "None"
    /\ writersMade = 0
    /\ batchesWritten = 0
    /\ handoff = "none"
    /\ closeTakesWriter = FALSE
    /\ xpc = "none"

FilterSupplierSpec == FilterSupplierInit /\ [][FilterSupplierNext]_vars

(***************************************************************************)
(* Properties of the supplier queue                                        *)
(***************************************************************************)
RangeOf(seq) == {seq[i] : i \in 1..Len(seq)}

\* the elements on the ready queues and those a consumer holds
QueuedElements == RangeOf(readyQueue[0]) \cup RangeOf(readyQueue[1])
HeldElements ==
    ({currentElement[c] : c \in Suppliers} \cup {currentSecondElement[c] : c \in Suppliers})
        \ {<<>>}

ReaderBlocked(r) ==
    \/ rpc[r] = "throttleWait" /\ ~throttle[r]
    \/ rpc[r] = "bufferWait" /\ ~emptyBuffersAvailable
SupplierBlocked(c) == cpc[c] = "waitReadsReady" /\ ~readsReady

ReadersAtEnd == \A r \in Readers : rpc[r] \in {"exited", "off"}

\* C1: for every batch b the tracker's count is zero exactly when doneWithElement
\* has been called for every element registered for b, and once that has happened
\* releaseBefore has been called with a batch ID greater than b.
C1_CountZeroAndReleased ==
    \A b \in Batches :
        /\ (pending[b] = 0) <=> (added[b] = removed[b])
        /\ (added[b] > 0 /\ added[b] = removed[b]) => \E x \in releasedBefore : x > b

\* C2: getElement / getElements report the end of input only when allReadsQueued
\* is true and no deliverable element remains, so that once every consumer has
\* finished no element is left undelivered on the ready queue(s).
C2_EndOnlyWhenDrained ==
    /\ \A c \in Suppliers :
          cpc[c] = "supplierFinished" => allReadsQueued /\ ~areAnyReadsReady(readyQueue)
    /\ (\A c \in Suppliers : cpc[c] = "finished") => ~areAnyReadsReady(readyQueue)

\* C3: once every reader thread has reached the end of its input, every consumer
\* eventually gets end-of-input, allReadsConsumed is signalled and
\* waitUntilFinished returns.
C3_ShutdownCompletes ==
    ReadersAtEnd ~> ((\A c \in Suppliers : cpc[c] = "finished") /\ finishedWaiting)

\* C4: in split-file mode every pair handed out is the i-th record of file A with
\* the i-th record of file B, and the two elements taken together hold the same
\* number of reads.
C4_SplitPairsMatch ==
    mode = "split" =>
        \A c \in Suppliers :
            /\ lastReturned[c] # <<>> =>
                  /\ lastReturned[c][1].file = 0
                  /\ lastReturned[c][2].file = 1
                  /\ lastReturned[c][1].id >= 1
                  /\ lastReturned[c][1].id = lastReturned[c][2].id
            /\ currentElement[c] # <<>> /\ currentSecondElement[c] # <<>> =>
                  Len(currentElement[c]) = Len(currentSecondElement[c])

\* C7: every read in a ready-queue element or in an element a consumer holds
\* belongs to a batch whose tracker count is greater than zero.
C7_ActiveReadsCounted ==
    \A e \in QueuedElements \cup HeldElements :
        \A i \in 1..Len(e) : pending[e[i].batch] > 0

\* a reader's lead over the other one, in elements pushed
Lead(r) == balance * balanceIncrement(r)

BothFilesUnread == \A r \in Readers : nextRecord[r] <= fileLen

C8_NoDataWhileGateClosed ==
    [][((getData \/ GateWake) /\ ppc' = "idle" /\ getDataResult) => ~GateClosed]_vars

\* C9: right after a nextBatch that was not at EOF, getFileOffset() is the previous
\* batch's starting file offset plus max(previous offset, previous start-region
\* size).
C9_NextBatchCarriesOverflow ==
    [][(currentBatch' = currentBatch + 1 /\ ppc' = "idle") =>
          getFileOffset' = currentMapOffset + (currentBatch - 1) * batchSize
                               + Max(offset, StartRegion(currentBatch))]_vars

\* C10: the batch ID getBatch() returns never decreases, whichever of getData,
\* advance, nextBatch, releaseBefore and reinit is called in between.
C10_BatchIdsNeverDecrease == [][getBatch' >= getBatch]_vars

(***************************************************************************)
(* Properties of both data readers                                         *)
(***************************************************************************)
\* C11: once isEOF() is true on a reader it stays true over every getData,
\* advance, nextBatch and releaseBefore call; only reinit may make it false
\* again.
C11_EOFIsSticky ==
    [][/\ (isEOF /\ ~(\E a \in ReinitArgs : reinit(a[1], a[2]))) => isEOF'
       /\ (OverlappedIsEOF /\ ~(\E a \in ReinitArgs : OverlappedReinit(a[1], a[2])))
              => OverlappedIsEOF']_vars

\* the overlapped reader is at EOF, nextBatch has released the last buffer, and
\* the reader has gone on launching reads behind it
C11_Witness ==
    /\ opc = "ready"
    /\ OverlappedIsEOF
    /\ bufferInfo[nextBufferForConsumer].state = "Empty"
    /\ nextBufferForConsumer # 0
    /\ \E i \in BufferIndex :
          bufferInfo[i].batchID > bufferInfo[nextBufferForConsumer].batchID + 1

(***************************************************************************)
(* Properties of the asynchronous writer                                   *)
(***************************************************************************)
\* C12: the worker never fills, and a filter never writes into, a buffer whose
\* asynchronous write is still outstanding; when nextBatch has returned true the
\* current buffer has no write outstanding.  This holds for every buffer count
\* and every filter type.
C12_NoWriteIntoBufferInFlight ==
    \A w \in Writers :
        /\ ~touched[w]
        /\ wpc[w] = "idle" => ~batches[w][current[w]].file

\* no writer is between reserving a range and handing its batch to beginWrite
NoHandoffPending == \A w \in Writers : wpc[w] \in {"idle", "wait", "off"}

\* the ranges [r[1], r[1] + r[2]) of the set rs are pairwise disjoint and, once
\* no handoff is pending, cover [0, total) without a gap
Tiles(rs, total) ==
    /\ \A a \in rs : \A b \in rs :
          a # b => (a[2] + a[3] <= b[2] \/ b[2] + b[3] <= a[2])
    /\ NoHandoffPending =>
          \A x \in 0..(total - 1) : \E a \in rs : a[2] <= x /\ x < a[2] + a[3]

\* two sets of offsets, one pair per batch, are in the same order
SameOrder(pairs) ==
    \A a \in pairs : \A b \in pairs : ~(a[1] < b[1] /\ a[2] > b[2])

\* C13 as stated: over the Batch structs passed to beginWrite, by any number of
\* writers in any interleaving, the (fileOffset, used) ranges are pairwise
\* disjoint and cover [0, sharedOffset), the (logicalOffset, logicalUsed) ranges
\* do the same for [0, sharedLogical), and the batches come in the same order in
\* both spaces.
C13_HandedBatchesTileBothSpaces ==
    /\ Tiles({<<h.writer, h.fileOffset, h.used>> : h \in handed}, sharedOffset)
    /\ Tiles({<<h.writer, h.logicalOffset, h.logicalUsed>> : h \in handed}, sharedLogical)
    /\ SameOrder({<<h.fileOffset, h.logicalOffset>> : h \in handed})

\* C13, amended: the physical ranges are those of the Batch structs passed to
\* beginWrite, the logical ranges those of the buffers the workers filled (with
\* a Copy or Transform filter these are different Batch structs: the one passed
\* to beginWrite carries logicalUsed = 0).  Both families are pairwise disjoint
\* and cover [0, sharedOffset) and [0, sharedLogical), in the same order.
C13_ReservedRangesTileBothSpaces ==
    /\ Tiles({<<h.writer, h.fileOffset, h.used>> : h \in handed}, sharedOffset)
    /\ Tiles({<<h.writer, h.filledOffset, h.filledUsed>> : h \in handed}, sharedLogical)
    /\ SameOrder({<<h.fileOffset, h.filledOffset>> : h \in handed})

\* two writers with a Transform filter have handed off interleaved batches whose
\* physical and logical sizes differ
C13_Witness ==
    /\ filterType = "Transform"
    /\ NoHandoffPending
    /\ Cardinality(handed) = MaxHandoffs
    /\ \A w \in Writers : \E h \in handed : h.writer = w /\ h.filledUsed > 0
    /\ \E a \in handed : \E b \in handed : \E c \in handed :
          /\ a.writer = c.writer /\ a.writer # b.writer
          /\ a.fileOffset < b.fileOffset /\ b.fileOffset < c.fileOffset
    /\ sharedOffset # sharedLogical

StrictlyDescending(locations) ==
    \A k \in 1..(Len(locations) - 1) : locations[k] > locations[k + 1]

\* C14: in every hit-location ring buffer of paired alignment, whatever insertHead,
\* trimAboveLocation and clear calls align has made, consecutive entries have
\* strictly decreasing genome locations (read in the order of insertion, from the
\* entry getTail returns to the one getHead returns).
C14_RingBuffersStrictlyDescending ==
    \A i \in SetPairs :
        /\ StrictlyDescending(Entries(hitLocations[i]))
        /\ StrictlyDescending(Entries(mateHitLocations[i]))

\* the distance between two genome locations
Spacing(a, b) == IF a > b THEN a - b ELSE b - a

ResultReported == apc = "done" /\ \E r \in ReadsOfPair : result.status[r] # "NotFound"
ScoresWithinLimit == result.score[0] + result.score[1] <= maxK
FromIntersection == dataLength >= 50 /\ countOfNs <= maxK
\* the location a read's reported alignment was scored at: scoreLocation shifts
\* the reported location by genomeLocationOffset
ScoredAt(r) == Unsigned(result.location[r] - bestResultOffset[r])

\* C15 as stated: whenever paired alignment reports a result other than NotFound,
\* the two reported scores sum to at most maxK and the distance between the two
\* reported genome locations lies in [minSpacing, maxSpacing].
C15_ReportedPairWithinLimits ==
    ResultReported =>
        /\ ScoresWithinLimit
        /\ Spacing(result.location[0], result.location[1]) \in minSpacing..maxSpacing

\* C15 amended: whenever align reports a pair it found by intersecting the hit
\* sets (the reads did not go to the base aligner), the two reported scores sum to
\* at most maxK and the distance between the two locations the reads were scored
\* at (each reported location less its genomeLocationOffset) lies in
\* [minSpacing, maxSpacing].
C15_IntersectedPairWithinLimits ==
    (ResultReported /\ FromIntersection) =>
        /\ ScoresWithinLimit
        /\ Spacing(ScoredAt(0), ScoredAt(1)) \in minSpacing..maxSpacing

\* a pair found by intersection, reported with a shifted location and a distance
\* between the reported locations that is out of range
C15_Witness ==
    /\ ResultReported
    /\ FromIntersection
    /\ \E r \in ReadsOfPair : bestResultOffset[r] # 0
    /\ Spacing(result.location[0], result.location[1]) > maxSpacing

\* the offsets of the records of the file
Offsets == 1..Len(records)
\* the mapped records at the location of the record at offset o
RunOf(o) == {p \in Offsets : records[p].location = records[o].location}
\* the records that were in a run of more than one mapped read
InProcessedRun == {o \in Offsets : Cardinality(RunOf(o)) > 1}
\* a read, or the two reads of a pair: the records of one name in one partition
ReadOrPair(o) ==
    {p \in InProcessedRun : /\ DuplicateReadKey(records[p]) = DuplicateReadKey(records[o])
                            /\ records[p].read_name = records[o].read_name}
\* the reads or pairs of the partition of the record at offset o
PartitionOf(o) ==
    {ReadOrPair(p) : p \in {q \in InProcessedRun :
                               DuplicateReadKey(records[q]) = DuplicateReadKey(records[o])}}
RECURSIVE TotalQuality(_)
TotalQuality(unit) ==
    IF unit = {} THEN 0
    ELSE LET o == CHOOSE p \in unit : TRUE
         IN  getTotalQuality(records[o]) + TotalQuality(unit \ {o})
NotDuplicate(o) == "SAM_DUPLICATE" \notin records[o].FLAG

\* C16: once duplicate marking has processed every run of more than one mapped
\* read, each partition (same locations and orientation flags) of such a run has
\* exactly one read or pair left without SAM_DUPLICATE, no other read or pair of
\* the partition has a higher total base quality, and every other mapped read of
\* the partition has SAM_DUPLICATE set.
C16_OneBestReadLeftUnmarked ==
    dpc = "done" =>
        \A o \in InProcessedRun :
            \E best \in PartitionOf(o) :
                /\ \A p \in best : NotDuplicate(p)
                /\ \A other \in PartitionOf(o) :
                      /\ TotalQuality(other) <= TotalQuality(best)
                      /\ other # best => \A p \in other : ~NotDuplicate(p)

\* the composed filter has been called, and these are the calls of the last one
LastCalls == SubSeq(calls, Len(calls) - 1, Len(calls))
FilterCalled == fpc = "filter" /\ calls # <<>>

\* C17: the filter compose(a, b) yields has the higher of a's and b's types, and
\* every call of its onAdvance or onNextBatch calls a and then b: onAdvance with
\* the same arguments, onNextBatch giving b the size a's onNextBatch returned
\* for the batch and returning what b returned.
C17_ComposeCallsAThenB ==
    /\ fpc \in {"composed", "filter", "closed"} =>
          /\ composedType \in {typeA, typeB}
          /\ FilterRank(composedType) >= FilterRank(typeA)
          /\ FilterRank(composedType) >= FilterRank(typeB)
    /\ FilterCalled =>
          /\ LastCalls[1].filter = "a" /\ LastCalls[2].filter = "b"
          /\ LastCalls[1].op = LastCalls[2].op
          /\ LastCalls[1].offset = LastCalls[2].offset
          /\ LastCalls[1].op = "onAdvance" =>
                LastCalls[2].bytes = LastCalls[1].bytes /\ composedResult = Unset
          /\ LastCalls[1].op = "onNextBatch" =>
                /\ LastCalls[2].bytes = resultOfA[LastCalls[1].bytes]
                /\ composedResult = resultOfB[resultOfA[LastCalls[1].bytes]]

\* a Transform filter that changes sizes composed with a Read one, and a batch
\* handed off: b got a size that differs from the batch's
C17_Witness ==
    /\ FilterCalled
    /\ typeA = "Transform" /\ typeB = "Read" /\ composedType = "Transform"
    /\ LastCalls[1].op = "onNextBatch"
    /\ LastCalls[2].bytes # LastCalls[1].bytes
    /\ composedResult # LastCalls[2].bytes

\* the logical offset asked for has a block and both parts are in range
InRange ==
    /\ logicalAsked # UINT64_MAX
    /\ Translatable(translation, logicalAsked)
    /\ translate(translation, logicalAsked).physical < Pow2(PhysicalBits)
    /\ translate(translation, logicalAsked).delta < Pow2(DeltaBits)

\* C18: toVirtualOffset(logical) returns a value whose upper part (result >> 16)
\* is the physical start of the block and whose lower part (result & 0xFFFF) is
\* the offset within the block when logical translates to a block start below
\* 2^48 and an offset within the block below 2^16; for every other input
\* (UINT64_MAX, no translation, a part out of range) it returns 0.
C18_VirtualOffsetPacksBlockAndDelta ==
    gpc = "asked" =>
        IF InRange
        THEN /\ virtualOffset \div Pow2(DeltaBits) = translate(translation, logicalAsked).physical
             /\ virtualOffset % Pow2(DeltaBits) = translate(translation, logicalAsked).delta
        ELSE virtualOffset = 0

\* an offset inside the second block of a file, both parts not zero
C18_Witness ==
    /\ gpc = "asked"
    /\ InRange
    /\ Len(translation) = MaxBlocks
    /\ translate(translation, logicalAsked).physical = translation[MaxBlocks][2]
    /\ translate(translation, logicalAsked).delta > 0
    /\ virtualOffset > Pow2(DeltaBits)

\* the low nibble of the last byte holds no base and is 0
FinalNibbleUnused == l_seq % 2 = 1 => original[Len(original)] % 16 = 0

\* C19: a base string over =ACMGRSVTWYHKDBN of any length, packed by encodeSeq
\* and unpacked by decodeSeq, is the string again; a packed array whose unused
\* final low nibble is 0, unpacked by decodeSeq and packed by encodeSeq, is the
\* array again.
C19_SeqRoundTrip ==
    /\ bpc = "textBack" => ascii = original
    /\ (bpc = "nibblesBack" /\ FinalNibbleUnused) => encoded = original

\* a string of odd length, with "=" and other letters, is back from its packed form
C19_Witness ==
    /\ bpc = "textBack"
    /\ Len(original) = MaxBases
    /\ original[1] = "=" /\ original[2] = "N" /\ original[MaxBases] = "A"
    /\ ascii = original

\* a packed array of odd length is back from its text
C19_WitnessNibbles ==
    /\ bpc = "nibblesBack"
    /\ l_seq = MaxBases
    /\ FinalNibbleUnused
    /\ original[1] = 31
    /\ encoded = original

\* C20: a quality string of characters '!' through '~', stored by the BAM
\* writer as character - '!' and decoded by decodeQual, is the string again.
C20_QualRoundTrip ==
    bpc = "qualBack" => o_qual = original

\* the hits of the set before the call that the cursors had not passed, as pairs
\* of a lookup and an index, and those at or below the location asked for
NotYetPassed ==
    {h \in (1..Len(hitSetBefore.lookups)) \X (0..(MaxHitsPerLookup - 1)) :
        /\ h[2] < nHits(hitSetBefore.lookups[h[1]])
        /\ h[2] >= hitSetBefore.lookups[h[1]].currentHitForIntersection}
Adjusted(h) == hitLocation(hitSetBefore.lookups[h[1]], h[2])
Candidates == {h \in NotYetPassed : Adjusted(h) <= maxAsked}
\* the call asks for less than every hit the cursors have passed, as align does
PassedAreAbove ==
    \A i \in 1..Len(hitSetBefore.lookups) :
        \A k \in 0..(hitSetBefore.lookups[i].currentHitForIntersection - 1) :
            k < nHits(hitSetBefore.lookups[i]) =>
                hitLocation(hitSetBefore.lookups[i], k) > maxAsked

\* C26: getNextHitLessThanOrEqualTo(m) returns true exactly when some hit of some
\* recorded lookup that is not yet passed has an adjusted location (hit less seed
\* offset) of at most m, and then it reports the highest such adjusted location
\* and the seed offset of a lookup that has a hit there.
C26_NextHitIsHighestAtOrBelow ==
    (hpc = "lessOrEqual" /\ PassedAreAbove) =>
        /\ answer.anyFound = (Candidates # {})
        /\ Candidates # {} =>
              \E h \in Candidates :
                  /\ \A g \in Candidates : Adjusted(g) <= Adjusted(h)
                  /\ answer.genomeLocation = Adjusted(h)
                  /\ answer.seedOffset = hitSetBefore.lookups[h[1]].seedOffset

\* align is past the start of phase 2
Intersecting == FromIntersection /\ apc # "align"
BestPairFound == bestPairScore # NoPairScore
ScoreLimitNeverIncreases == [][Intersecting => scoreLimit' <= scoreLimit]_vars

IterationStarts == apc = "loop" /\ ~(setPairDone[0] /\ setPairDone[1])

\* the loop is inside an iteration: at its top, scoring the hit of the read
\* with fewer hits, or going through the mates of that hit
InIteration == IterationStarts \/ apc \in {"score", "mates"}

\* a step that ends an iteration: the hit of the read with fewer hits was
\* skipped, scored -1, or scored and paired with its mates
IterationEnds == FromIntersection /\ InIteration /\ apc' = "loop"

\* C28: at the start of every iteration of the intersection loop the selected
\* set pair is not yet done, and after a hit of the read with fewer hits of one
\* set pair has been processed the next iteration works on the other set pair
\* whenever that one is not done.
C28_SetPairsAlternate ==
    /\ [](FromIntersection /\ InIteration => ~setPairDone[whichSetPairToCheck])
    /\ [][IterationEnds /\ ~setPairDone'[1 - whichSetPairToCheck]
            => whichSetPairToCheck' = 1 - whichSetPairToCheck]_vars

\* both set pairs still have hits and the loop has gone from the first set
\* pair, where it starts, to the second one
C28_Witness ==
    /\ FromIntersection
    /\ IterationStarts
    /\ whichSetPairToCheck = 1
    /\ ~setPairDone[0]
    /\ ~setPairDone[1]

\* the step moves set pair i's cursor in the read with fewer hits to a strictly
\* lower genome location
FewerHitsCursorLower(i) ==
    intersectionState'[i].lastGenomeLocationForReadWithFewerHits
        < intersectionState[i].lastGenomeLocationForReadWithFewerHits

\* C27: every iteration of the intersection loop marks the current set pair
\* done, leaves the loop, or moves that set pair's cursor in the read with fewer
\* hits to a strictly lower genome location, so that the hits of that read are
\* visited from highest to lowest and none twice.
C27_EachIterationMovesLower ==
    [][IterationEnds =>
          \A i \in SetPairs :
              whichSetPairToCheck = i => setPairDone'[i] \/ FewerHitsCursorLower(i)]_vars

\* the step is a seed lookup of read r
LooksUp(r) == countOfHashTableLookups'[r] # countOfHashTableLookups[r]

\* the lookup of the step recorded nothing for direction dir in read r's hit set
NotRecorded(r, dir) == hashTableHitSets'[r][dir] = hashTableHitSets[r][dir]

\* all the hits the lookup of the step returned for direction dir are in read
\* r's hit set, as its newest lookup
Contributed(r, dir) ==
    \/ Len(seedHits'[dir]) = 0
    \/ /\ Len(hashTableHitSets'[r][dir]) = Len(hashTableHitSets[r][dir]) + 1
       /\ hashTableHitSets'[r][dir][Len(hashTableHitSets'[r][dir])].hits = seedHits'[dir]

\* the directions in which the lookup of the step returned more than limit hits
DirectionsAbove(limit) == {dir \in Directions : Len(seedHits'[dir]) > limit}

\* C30: a seed lookup is treated as popular (recorded in no hit set and counted
\* once in popularSeedsSkipped) exactly when its hit count exceeds maxBigHits; a
\* lookup with at most maxBigHits hits contributes all its hits.
C30_PopularExactlyAboveMaxBigHits ==
    [][\A r \in ReadsOfPair :
          LooksUp(r) =>
             /\ popularSeedsSkipped'[r] =
                    popularSeedsSkipped[r] + Cardinality(DirectionsAbove(maxBigHits))
             /\ \A dir \in Directions :
                    IF dir \in DirectionsAbove(maxBigHits)
                    THEN NotRecorded(r, dir) ELSE Contributed(r, dir)]_vars

\* every range of the file has been read
AllRangesRead == samPc = "done"

\* C21: when the body of a SAM file is divided into consecutive byte ranges that
\* are each given to a reader by reinit(start, length), every record (every pair
\* of paired input) is returned by exactly one range's reader: no reader fails,
\* no record is skipped and none is returned twice, wherever the ranges begin.
C21_EachRecordReturnedOnce ==
    /\ samPc # "failed"
    /\ AllRangesRead => \A i \in Lines : returnedCount[i] = 1

(***************************************************************************)
(* Properties of the SAM and BAM records                                   *)
(***************************************************************************)
BothAligned ==
    /\ withMate
    /\ tpc # "write"
    /\ isOneLocation(alignments[0].status)
    /\ isOneLocation(alignments[1].status)

\* where the read would begin on the reference had no base been clipped
UnclippedStart(r) ==
    alignments[r].location
        - (IF alignments[r].isRC
           THEN samReads[r].unclippedLength - samReads[r].dataLength
                    - samReads[r].frontClippedLength
           ELSE samReads[r].frontClippedLength)

\* C22: in a pair with both mates aligned to one location, the two records'
\* TLEN values are equal in magnitude and opposite in sign, and the positive
\* one is on the record of the mate whose unclipped start is leftmost.
C22_TemplateLengthsOpposite ==
    BothAligned =>
        /\ samLines[1].TLEN = -samLines[2].TLEN
        /\ samLines[1].TLEN # 0
        /\ UnclippedStart(0) < UnclippedStart(1) => samLines[1].TLEN > 0
        /\ UnclippedStart(1) < UnclippedStart(0) => samLines[2].TLEN > 0

\* the location a record is written for: none when the read was not found
WrittenLocation(r) ==
    IF alignments[r].status = "NotFound" THEN InvalidGenomeLocation
    ELSE alignments[r].location
MappedReads ==
    {r \in DOMAIN alignments : tpc # "write" /\ WrittenLocation(r) # InvalidGenomeLocation}
PieceStart(r) == genomePieces[getPieceAtLocation(genomePieces, WrittenLocation(r))]
OneBasedOffset(r) == WrittenLocation(r) - PieceStart(r) + 1

SAMPositionOneBased ==
    \A r \in MappedReads : samLines[r + 1].POS = ToDecimal(OneBasedOffset(r))
ReaderRestoresLocation ==
    \A r \in MappedReads :
        tpc = "read" =>
            /\ parsedBack[r + 1] # ParseFailed
            /\ parsedBack[r + 1].genomeLocation = WrittenLocation(r)

\* C23 as stated: the position of a mapped read in the SAM record and in the
\* BAM record is genomeLocation - piece start + 1, and the SAM reader turns
\* the SAM position back into the genome location.
C23_PositionOneBasedInBoth ==
    /\ SAMPositionOneBased
    /\ \A r \in MappedReads : bamRecords[r + 1].pos = OneBasedOffset(r)
    /\ ReaderRestoresLocation

\* C23: the position of a mapped read is genomeLocation - piece start + 1 in
\* the SAM record and one less, the zero-based offset, in the BAM record, and
\* the SAM reader turns the SAM position back into the genome location.
C23_PositionOneBasedInSAM ==
    /\ SAMPositionOneBased
    /\ \A r \in MappedReads : bamRecords[r + 1].pos = OneBasedOffset(r) - 1
    /\ ReaderRestoresLocation

\* a mapped read in the second piece, at a position of two digits, read back
C23_Witness ==
    /\ tpc = "read"
    /\ 0 \in MappedReads
    /\ Len(samLines[1].POS) = 2
    /\ samLines[1].RNAME = "chr2"
    /\ bamRecords[1].pos = alignments[0].location - 2
    /\ parsedBack[1].genomeLocation = alignments[0].location

(***************************************************************************)
(* Properties of the mapping quality                                       *)
(***************************************************************************)
\* the sum of all candidates' probabilities, raised to the best one's
RaisedProbabilityOfAll ==
    IF probabilityOfAllCandidates < probabilityOfBestCandidate
    THEN probabilityOfBestCandidate ELSE probabilityOfAllCandidates

TakesUnusableRead ==
    /\ readsToAlign # <<>>
    /\ readsToAlign' = Tail(readsToAlign)
    /\ \/ Head(readsToAlign).dataLength < 50
       \/ Head(readsToAlign).countOfNs > maxDist

CountedNotUseful ==
    /\ alignedReads' = alignedReads
    /\ alignerStats'.totalReads = alignerStats.totalReads + 1
    /\ alignerStats'.usefulReads = alignerStats.usefulReads

IsUnmappedRecord(line) ==
    /\ "SAM_UNMAPPED" \in line.FLAG
    /\ "SAM_REVERSE_COMPLEMENT" \notin line.FLAG
    /\ line.RNAME = "*"
    /\ line.POS = <<0>>

EmittedUnmapped ==
    /\ Len(samOutput') = Len(samOutput) + 1
    /\ SubSeq(samOutput', 1, Len(samOutput)) = samOutput
    /\ IsUnmappedRecord(samOutput'[Len(samOutput')])

\* C24 as stated: such a read is not passed to the aligner, is counted in
\* totalReads and not in usefulReads, and is emitted as unmapped.
C24_UnusableReadEmittedUnmapped ==
    [][TakesUnusableRead => CountedNotUseful /\ EmittedUnmapped]_vars

\* C24: such a read, unless the sampling of the selectivity option leaves it
\* out, is not passed to the aligner and is counted in totalReads and not in
\* usefulReads; it is emitted as unmapped (flag 0x4, no reverse-complement
\* flag, RNAME '*', POS 0) when there is a SAM writer and the filter passes
\* unaligned reads, and not emitted otherwise.
C24_UnusableReadCountedNotAligned ==
    [][TakesUnusableRead /\ lastOutcome' # "skipped" =>
          /\ CountedNotUseful
          /\ IF hasSamWriter /\ (filterFlags = {} \/ "FilterUnaligned" \in filterFlags)
             THEN EmittedUnmapped
             ELSE samOutput' = samOutput]_vars

\* a read of 49 bases has been counted, not aligned, and written as unmapped
\* under the filter for unaligned reads
C24_Witness ==
    /\ lastOutcome = "rejected"
    /\ "FilterUnaligned" \in filterFlags
    /\ alignerStats.totalReads > alignerStats.usefulReads
    /\ samOutput # <<>>
    /\ IsUnmappedRecord(samOutput[Len(samOutput)])
    /\ Len(alignedReads) = alignerStats.usefulReads
    /\ alignerStats.usefulReads > 0

(***************************************************************************)
(* Properties of the overlapped reader's releaseBefore                     *)
(***************************************************************************)
\* the reader state on which nextBatch(FALSE) calls releaseBefore, and the batch
\* it passes
StateAtRelease ==
    LET info == bufferInfo[nextBufferForConsumer]
        next == (nextBufferForConsumer + 1) % nBuffers
        overflow == Max(info.offset, info.nBytesThatMayBeginARead)
                        - info.nBytesThatMayBeginARead
        waited == waitForBuffer(ReaderState, endingOffset, next)
    IN  IF info.isEOF THEN ReaderState
        ELSE startIo([waited EXCEPT !.bufferInfo[next].offset = overflow], endingOffset)
BatchAtRelease ==
    LET info == bufferInfo[nextBufferForConsumer]
        next == (nextBufferForConsumer + 1) % nBuffers
    IN  IF info.isEOF THEN info.batchID + 1 ELSE StateAtRelease.bufferInfo[next].batchID

\* the buffers of st with a batch ID below b
Earlier(st, b) == {i \in BufferIndex : st.bufferInfo[i].batchID < b}

NoneReading(st, b) == \A i \in Earlier(st, b) : st.bufferInfo[i].state # "Reading"

\* after the call every earlier buffer is Empty or has been handed to a new
\* read, no read is left to launch on the reader's next buffer, and every other
\* buffer is as it was
ReleasedAndRelaunched(st, b) ==
    /\ \A i \in Earlier(st, b) :
           \/ bufferInfo'[i].state = "Empty"
           \/ /\ bufferInfo'[i].batchID >= st.nextBatchID
              /\ bufferInfo'[i].state \in {"Reading", "Full"}
    /\ bufferInfo'[nextBufferForReader'].state # "Empty"
    /\ \A i \in BufferIndex \ Earlier(st, b) : bufferInfo'[i] = st.bufferInfo[i]

\* C31: when releaseBefore(b) runs, from nextBatch or from a caller with b no
\* greater than the consumer's batch, no buffer with a batch ID below b is
\* Reading; afterwards each such buffer has been marked Empty and read-ahead
\* relaunched on the Empty buffers, and the buffers with batch ID >= b keep
\* their state and contents.
C31_ReleaseBeforeEmptiesEarlier ==
    [][/\ OverlappedNextBatch(FALSE) =>
              NoneReading(StateAtRelease, BatchAtRelease)
              /\ ReleasedAndRelaunched(StateAtRelease, BatchAtRelease)
       /\ \A b \in OverlappedReleased :
              OverlappedReleaseBefore(b) =>
                  NoneReading(ReaderState, b) /\ ReleasedAndRelaunched(ReaderState, b)]_vars

\* the consumer has moved on and released: the first buffer of the ring is
\* being read again, further into the file than any reinit starts
C31_Witness ==
    /\ opc = "ready"
    /\ nextBufferForConsumer # 0
    /\ bufferInfo[nextBufferForConsumer].state = "Full"
    /\ bufferInfo[0].state = "Reading"
    /\ bufferInfo[0].batchID > nBuffers
    /\ bufferInfo[0].fileOffset > batchSize

(***************************************************************************)
(* Properties of the memory-mapped reader's lock and gate                  *)
(***************************************************************************)
\* C36: nextBatch never asks for the reader's lock while its thread holds it,
\* so nextBatch with dontRelease = false on a reader of several batches
\* completes: its thread is never left waiting for the lock it holds.
C36_NextBatchNeverWaitsForOwnLock ==
    [][\A d \in BOOLEAN : nextBatch(d) => ppc' = "idle"]_vars

\* C34: a producer that waits in getData at the flow-control gate returns once
\* releaseBefore has raised earliestUnreleasedBatch so that currentBatch -
\* earliestUnreleasedBatch < batchCount: no wake-up is lost.
C34_BlockedProducerReturns ==
    (ppc = "gateWait" /\ ~GateClosed) ~> (ppc # "gateWait")


(***************************************************************************)
(* Properties of the gzip reader                                           *)
(***************************************************************************)
\* C32: in the gzip reader the bytes carried into the next batch are between
\* 0 and overflowBytes, and the consumer offset is between 0 and validBytes,
\* after any sequence of getData, advance and nextBatch calls
C32_CarriedAndOffsetInRange ==
    zpc \in {"idle", "release", "gateWait"} =>
        /\ 0 <= priorBytes /\ priorBytes <= overflowBytes
        /\ 0 <= gzOffset /\ gzOffset <= gzValidBytes

\* an unreleased batch before batch cb has the extra slot of batch cb
SlotStillInUse(cb, earliest) == \E b \in earliest..(cb - 1) : extraSlot(b) = extraSlot(cb)

\* C35: the gzip reader writes into the extra slot of a batch, by the copy of
\* the carried bytes or by inflating, only when the batch that had the slot
\* before is released
C35_SlotWrittenAfterRelease ==
    [][extraWritten' \notin {0, extraWritten} =>
           ~SlotStillInUse(extraWritten', earliestUnreleasedBatch)]_vars


(***************************************************************************)
(* Properties of duplicate marking: the other flags                        *)
(***************************************************************************)
\* the flags of a record other than SAM_DUPLICATE
OtherFlags(bam) == bam.FLAG \ {"SAM_DUPLICATE"}

C38_SupplierDeclaresTypeOfItsFilters ==
    writersMade > 0 => supplierType = createdType

\* the two decisions made from the types agree all the same
CloseAgreesWithHandoff ==
    writersMade > 0 => (closeGivesWriter(supplierType) <=> bufferHandoff(createdType) = "newSize")


(***************************************************************************)
(* Properties of the supplier queue: where the elements are                *)
(***************************************************************************)
\* the elements commonInit and the generateNew...Supplier calls have allocated
ElementsAllocated ==
    2 + Cardinality({c \in Suppliers : cpc[c] # "new"}) * (IF twoFiles THEN 4 ELSE 2)

\* the elements a reader thread has taken off the empty queue and not pushed
BeingFilled == Cardinality({r \in Readers : rpc[r] \in {"fill", "push"}})

\* the elements the consumers hold
HeldByConsumers ==
    Cardinality({c \in Suppliers : currentElement[c] # <<>>})
        + Cardinality({c \in Suppliers : currentSecondElement[c] # <<>>})

EveryElementInOnePlace ==
    emptyQueue + Len(readyQueue[0]) + Len(readyQueue[1]) + BeingFilled + HeldByConsumers
        = ElementsAllocated

EmptyBuffersEventMatches == emptyBuffersAvailable <=> emptyQueue > 0

ReadsReadyEventMatches == readsReady <=> areAnyReadsReady(readyQueue)

\* C37: every queue element is in exactly one place, the empty queue, a ready
\* queue, a reader thread that fills it or a consumer that holds it, and
\* emptyBuffersAvailable is open exactly when the empty queue is not empty and
\* readsReady exactly when areAnyReadsReady() holds, whenever the lock is free
C37_ElementsPlacedAndEventsMatch ==
    /\ EveryElementInOnePlace
    /\ EmptyBuffersEventMatches
    /\ ReadsReadyEventMatches

====
